---- MODULE Spec2Model ----
(***************************************************************************)
(* A model of the tonal music library (tonal.c, tonal.h, tonal_priv.h).    *)
(*                                                                         *)
(* Every C function is an operator computing what the function computes.  *)
(* A function with an output parameter takes the previous content of the  *)
(* output struct and returns a record [ret, <struct after the call>], so   *)
(* that writes made before a failing return are visible.  A failing       *)
(* assert() is the status ABORT: the process is aborted and the function   *)
(* does not return (the build in the Makefile does not define NDEBUG).     *)
(* Pointers are never NULL in the model.                                   *)
(*                                                                         *)
(* The state machines are drivers in the style of test_tonal.c: Init draws *)
(* the operands, each action is one call of the library on the driver's   *)
(* structs.                                                                *)
(***************************************************************************)
EXTENDS Integers, Sequences, FiniteSets, TLC

VARIABLES
    pc,         \* the call the driver made last ("start" before any call)
    te0, te1,   \* struct tonal_element operands
    te_tmp,     \* struct tonal_element inverted in place (copy of te0)
    te2, te3,   \* struct tonal_element results
    ret, ret3,  \* return value of the last call / of the swapped call
    tp0, tp1,   \* struct tonal_pitch operands
    tp2,        \* struct tonal_pitch result
    ti0, ti1,   \* struct tonal_interval operands
    ti2,        \* struct tonal_interval result
    tc0, tc2,   \* struct tonal_class operand / result
    tpc0, tpc2, \* struct tonal_pitch_class operand / result
    tic0, tic2, \* struct tonal_interval_class operand / result
    ret0,       \* return value of the first call of a two call sequence
    tp3,        \* struct tonal_pitch a chain of shifts started from
    shifts,     \* number of tp_add calls of a chain of shifts
    dv0, cv0    \* int arguments of te_from_dv_cv

vars == <<pc, te0, te1, te_tmp, te2, te3, ret, ret3, tp0, tp1, tp2,
          ti0, ti1, ti2, tc0, tc2, tpc0, tpc2, tic0, tic2, ret0, tp3,
          shifts, dv0, cv0>>

---------------------------------------------------------------------------
(* Bounds of the model. *)

\* Operand elements have octaves -MaxOct .. MaxOct.
MaxOct == 1
\* Operand pitches have octaves up to MaxPitchOct (and -1, invalid).
MaxPitchOct == 2
\* Operand intervals have octaves up to MaxIntervalOct (and -1, invalid).
MaxIntervalOct == 1

---------------------------------------------------------------------------
(* Enumerations of tonal.h and limits. *)

DP_C == 0
DP_E == 2
DP_F == 3
DP_B == 6
DP_NONE == 7
PA_bb == 0
PA_ == 2
PA_ss == 4
PA_NONE == 5
DI_PRIME == 0
DI_SECOND == 1
DI_THIRD == 2
DI_FOURTH == 3
DI_FIFTH == 4
DI_SIXTH == 5
DI_SEVENTH == 6
DI_NONE == 7
IA_DIMINISHED == 0
IA_MINOR == 1
IA_MAJOR == 2
IA_PERFECT == 3
IA_AUGMENTED == 4
IA_NONE == 5
ID_UP == 0
ID_DOWN == 1
ID_NONE == 2
TONAL_OK == 0
TONAL_FAIL == 1
\* Outcome of a call in which an assert() failed.
ABORT == 2
INT_MIN == -2147483647 - 1
\* The character constant 'x' that marks an illegal pair in the table.
X == 120

TONAL_ELEMENT_ZERO == [diatonic_point |-> 0, alteration |-> 0, octave |-> 0]

\* The C division of ints, truncating toward zero (b > 0).
CDiv(a, b) == IF a >= 0 THEN a \div b ELSE -((-a) \div b)

\* The table with the rows of the Fourth and the Fifth filled in as those
\* of an imperfect interval.
TIC_TO_TC_TABLE_imperfect_fifth ==
    << << -1,  X,  X,  0,  1 >>,
       << -2, -1,  0,  X,  1 >>,
       << -2, -1,  0,  X,  1 >>,
       << -2, -1,  0,  X,  1 >>,
       << -2, -1,  0,  X,  1 >>,
       << -2, -1,  0,  X,  1 >>,
       << -2, -1,  0,  X,  1 >> >>

TIC_TO_TC_TABLE ==
    << << -1,  X,  X,  0,  1 >>,
       << -2, -1,  0,  X,  1 >>,
       << -2, -1,  0,  X,  1 >>,
       << -1,  X,  X,  0,  1 >>,
       << -1,  X,  X,  0,  1 >>,
       << -2, -1,  0,  X,  1 >>,
       << -2, -1,  0,  X,  1 >> >>

\* TIC_TO_TC_TABLE[di][ia] with the C indices starting at 0.
TicTable(di, ia) == TIC_TO_TC_TABLE[di + 1][ia + 1]

\* The table with whole tones only.
DT_TO_MPC_TABLE_whole_tones == << 0, 2, 4, 6, 8, 10, 12 >>

DT_TO_MPC_TABLE == << 0, 2, 4, 5, 7, 9, 11 >>

---------------------------------------------------------------------------
(* Casts between the struct types: a class is the first two fields. *)

\* (const struct tonal_class *) te
TcOfTe(te) == [diatonic_point |-> te.diatonic_point,
               alteration |-> te.alteration]
\* (const struct tonal_pitch_class *) tp
TpcOfTp(tp) == [diatonic_pitch |-> tp.diatonic_pitch,
                pitch_alteration |-> tp.pitch_alteration]
\* (const struct tonal_interval_class *) ti
TicOfTi(ti) == [diatonic_interval |-> ti.diatonic_interval,
                interval_alteration |-> ti.interval_alteration]

---------------------------------------------------------------------------
(* Validation. *)

validate_diatonic_point(dt) ==
    IF 0 <= dt /\ dt <= 6 THEN TONAL_OK ELSE TONAL_FAIL

validate_alteration(a) ==
    IF -2 <= a /\ a <= 2 THEN TONAL_OK ELSE TONAL_FAIL

validate_tc(tc) ==
    IF validate_diatonic_point(tc.diatonic_point) # TONAL_OK
    THEN validate_diatonic_point(tc.diatonic_point)
    ELSE IF validate_alteration(tc.alteration) # TONAL_OK
    THEN validate_alteration(tc.alteration)
    ELSE TONAL_OK

validate_te(te) == validate_tc(TcOfTe(te))

validate_diatonic_pitch(dp) ==
    IF DP_C <= dp /\ dp <= DP_B THEN TONAL_OK ELSE TONAL_FAIL

validate_pitch_alteration(pa) ==
    IF PA_bb <= pa /\ pa <= PA_ss THEN TONAL_OK ELSE TONAL_FAIL

validate_tpc(tpc) ==
    IF validate_diatonic_pitch(tpc.diatonic_pitch) # TONAL_OK
    THEN validate_diatonic_pitch(tpc.diatonic_pitch)
    ELSE IF validate_pitch_alteration(tpc.pitch_alteration) # TONAL_OK
    THEN validate_pitch_alteration(tpc.pitch_alteration)
    ELSE TONAL_OK

validate_tp(tp) ==
    IF tp.octave < 0 THEN TONAL_FAIL ELSE validate_tpc(TpcOfTp(tp))

validate_diatonic_interval(di) ==
    IF DI_PRIME <= di /\ di <= DI_SEVENTH THEN TONAL_OK ELSE TONAL_FAIL

validate_interval_alteration(ia) ==
    IF IA_DIMINISHED <= ia /\ ia <= IA_AUGMENTED THEN TONAL_OK ELSE TONAL_FAIL

validate_tic(tic) ==
    LET di == tic.diatonic_interval
        ia == tic.interval_alteration
    IN  IF validate_diatonic_interval(di) # TONAL_OK
        THEN validate_diatonic_interval(di)
        ELSE IF validate_interval_alteration(ia) # TONAL_OK
        THEN validate_interval_alteration(ia)
        ELSE IF X = TicTable(di, ia) THEN TONAL_FAIL
        ELSE TONAL_OK

validate_interval_octave(interval_octave) ==
    IF 0 <= interval_octave THEN TONAL_OK ELSE TONAL_FAIL

validate_interval_direction(interval_direction) ==
    IF interval_direction \in {ID_UP, ID_DOWN} THEN TONAL_OK ELSE TONAL_FAIL

\* validate_ti() without the rule on the Diminished Prime.
validate_ti_no_prime_rule(ti) ==
    IF validate_interval_octave(ti.octave) # TONAL_OK
    THEN validate_interval_octave(ti.octave)
    ELSE validate_interval_direction(ti.interval_direction)

\* The return value of validate_tic() is overwritten by the octave check
\* and is never looked at.
validate_ti(ti) ==
    IF validate_interval_octave(ti.octave) # TONAL_OK
    THEN validate_interval_octave(ti.octave)
    ELSE IF validate_interval_direction(ti.interval_direction) # TONAL_OK
    THEN validate_interval_direction(ti.interval_direction)
    ELSE IF 0 = ti.octave /\ DI_PRIME = ti.diatonic_interval
            /\ IA_DIMINISHED = ti.interval_alteration
    THEN TONAL_FAIL
    ELSE validate_interval_direction(ti.interval_direction)

---------------------------------------------------------------------------
(* Tonal Element arithmetic. *)

dt_get_mpc_value(dt) ==
    IF dt < 0 \/ Len(DT_TO_MPC_TABLE) <= dt THEN INT_MIN
    ELSE DT_TO_MPC_TABLE[dt + 1]

\* The assert on the range -2..13 cannot fail for a valid class: the table
\* holds 0..11 and the alteration is within -2..2.
tc_get_mpc_value(tc) ==
    IF validate_tc(tc) # TONAL_OK THEN INT_MIN
    ELSE dt_get_mpc_value(tc.diatonic_point) + tc.alteration

te_get_diatonic_value(te) ==
    IF validate_te(te) # TONAL_OK THEN INT_MIN
    ELSE 7 * te.octave + te.diatonic_point

\* te_get_chromatic_value() that leaves the alteration out.
te_get_chromatic_value_natural(te) ==
    IF validate_te(te) # TONAL_OK THEN INT_MIN
    ELSE 12 * te.octave + dt_get_mpc_value(te.diatonic_point)

te_get_chromatic_value(te) ==
    IF validate_te(te) # TONAL_OK THEN INT_MIN
    ELSE 12 * te.octave + tc_get_mpc_value(TcOfTe(te))

\* te_from_dv_cv() with the truncating division of C for every dv.
te_from_dv_cv_trunc(te, dv, cv) ==
    LET o == CDiv(dv, 7)
        dv1 == dv - o * 7
        cv1 == cv - o * 12
        t1 == [diatonic_point |-> dv1, alteration |-> 0, octave |-> 0]
        a == cv1 - te_get_chromatic_value(t1)
        t2 == [diatonic_point |-> dv1, alteration |-> a, octave |-> o]
    IN  IF cv1 < -2 \/ 13 < cv1 THEN [ret |-> TONAL_FAIL, te |-> te]
        ELSE IF validate_diatonic_point(dv1) # TONAL_OK
        THEN [ret |-> ABORT, te |-> te]
        ELSE IF validate_alteration(a) # TONAL_OK
        THEN [ret |-> validate_alteration(a), te |-> t1]
        ELSE IF validate_te(t2) # TONAL_OK THEN [ret |-> ABORT, te |-> t2]
        ELSE [ret |-> TONAL_OK, te |-> t2]

\* te_from_dv_cv() with the range check of a music pitch class, 0..11.
te_from_dv_cv_mpc_range(te, dv, cv) ==
    LET o == IF dv <= 0 THEN CDiv(dv - 6, 7) ELSE CDiv(dv, 7)
        dv1 == dv - o * 7
        cv1 == cv - o * 12
        t1 == [diatonic_point |-> dv1, alteration |-> 0, octave |-> 0]
        a == cv1 - te_get_chromatic_value(t1)
        t2 == [diatonic_point |-> dv1, alteration |-> a, octave |-> o]
    IN  IF cv1 < 0 \/ 11 < cv1 THEN [ret |-> TONAL_FAIL, te |-> te]
        ELSE IF validate_diatonic_point(dv1) # TONAL_OK
        THEN [ret |-> ABORT, te |-> te]
        ELSE IF validate_alteration(a) # TONAL_OK
        THEN [ret |-> validate_alteration(a), te |-> t1]
        ELSE IF validate_te(t2) # TONAL_OK THEN [ret |-> ABORT, te |-> t2]
        ELSE [ret |-> TONAL_OK, te |-> t2]

\* te_from_dv_cv() that writes *te only when it returns TONAL_OK.
te_from_dv_cv_checked_first(te, dv, cv) ==
    LET o == IF dv <= 0 THEN CDiv(dv - 6, 7) ELSE CDiv(dv, 7)
        dv1 == dv - o * 7
        cv1 == cv - o * 12
        t1 == [diatonic_point |-> dv1, alteration |-> 0, octave |-> 0]
        a == cv1 - te_get_chromatic_value(t1)
        t2 == [diatonic_point |-> dv1, alteration |-> a, octave |-> o]
    IN  IF cv1 < -2 \/ 13 < cv1 THEN [ret |-> TONAL_FAIL, te |-> te]
        ELSE IF validate_diatonic_point(dv1) # TONAL_OK
        THEN [ret |-> ABORT, te |-> te]
        ELSE IF validate_alteration(a) # TONAL_OK
        THEN [ret |-> validate_alteration(a), te |-> te]
        ELSE IF validate_te(t2) # TONAL_OK THEN [ret |-> ABORT, te |-> t2]
        ELSE [ret |-> TONAL_OK, te |-> t2]

\* te is the content of *te on entry; the result holds *te on return.
te_from_dv_cv(te, dv, cv) ==
    LET o == IF dv <= 0 THEN CDiv(dv - 6, 7) ELSE CDiv(dv, 7)
        dv1 == dv - o * 7
        cv1 == cv - o * 12
        t1 == [diatonic_point |-> dv1, alteration |-> 0, octave |-> 0]
        a == cv1 - te_get_chromatic_value(t1)
        t2 == [diatonic_point |-> dv1, alteration |-> a, octave |-> o]
    IN  IF cv1 < -2 \/ 13 < cv1 THEN [ret |-> TONAL_FAIL, te |-> te]
        ELSE IF validate_diatonic_point(dv1) # TONAL_OK
        THEN [ret |-> ABORT, te |-> te]
        ELSE IF validate_alteration(a) # TONAL_OK
        THEN [ret |-> validate_alteration(a), te |-> t1]
        ELSE IF validate_te(t2) # TONAL_OK THEN [ret |-> ABORT, te |-> t2]
        ELSE [ret |-> TONAL_OK, te |-> t2]

\* te_inv() that negates the diatonic value only.
te_inv_cv_kept(te) ==
    IF validate_te(te) # TONAL_OK THEN [ret |-> validate_te(te), te |-> te]
    ELSE te_from_dv_cv(te, -(te_get_diatonic_value(te)),
                           te_get_chromatic_value(te))

\* In place: te is *te on entry, the result holds *te on return.
te_inv(te) ==
    IF validate_te(te) # TONAL_OK THEN [ret |-> validate_te(te), te |-> te]
    ELSE te_from_dv_cv(te, -(te_get_diatonic_value(te)),
                           -(te_get_chromatic_value(te)))

\* te_add() that takes both chromatic values from te0.
te_add_cv_te0(e0, e1, out) ==
    IF validate_te(e0) # TONAL_OK THEN [ret |-> validate_te(e0), te |-> out]
    ELSE IF validate_te(e1) # TONAL_OK
    THEN [ret |-> validate_te(e1), te |-> out]
    ELSE te_from_dv_cv(out,
            te_get_diatonic_value(e0) + te_get_diatonic_value(e1),
            te_get_chromatic_value(e0) + te_get_chromatic_value(e0))

\* out is the content of *te2 on entry.
te_add(e0, e1, out) ==
    IF validate_te(e0) # TONAL_OK THEN [ret |-> validate_te(e0), te |-> out]
    ELSE IF validate_te(e1) # TONAL_OK
    THEN [ret |-> validate_te(e1), te |-> out]
    ELSE te_from_dv_cv(out,
            te_get_diatonic_value(e0) + te_get_diatonic_value(e1),
            te_get_chromatic_value(e0) + te_get_chromatic_value(e1))

\* te_tmp is a copy of te1, inverted, and added to te0.
te_sub(e0, e1, out) ==
    IF validate_te(e0) # TONAL_OK THEN [ret |-> validate_te(e0), te |-> out]
    ELSE IF validate_te(e1) # TONAL_OK
    THEN [ret |-> validate_te(e1), te |-> out]
    ELSE LET inv == te_inv(e1)
         IN  IF inv.ret # TONAL_OK THEN [ret |-> inv.ret, te |-> out]
             ELSE te_add(e0, inv.te, out)

---------------------------------------------------------------------------
(* Conversion layer.  Each operator takes the content of the output struct *)
(* on entry as its last parameter.                                         *)

tpc_to_tc(tpc, tc) ==
    LET out == [diatonic_point |-> tpc.diatonic_pitch - DP_C,
                alteration |-> tpc.pitch_alteration - PA_]
    IN  IF validate_tpc(tpc) # TONAL_OK
        THEN [ret |-> validate_tpc(tpc), tc |-> tc]
        ELSE IF validate_tc(out) # TONAL_OK THEN [ret |-> ABORT, tc |-> out]
        ELSE [ret |-> TONAL_OK, tc |-> out]

\* tc_to_tpc() without the offset of the natural.
tc_to_tpc_no_offset(tc, tpc) ==
    LET out == [diatonic_pitch |-> tc.diatonic_point + DP_C,
                pitch_alteration |-> tc.alteration]
    IN  IF validate_tc(tc) # TONAL_OK
        THEN [ret |-> validate_tc(tc), tpc |-> tpc]
        ELSE IF validate_tpc(out) # TONAL_OK
        THEN [ret |-> ABORT, tpc |-> out]
        ELSE [ret |-> TONAL_OK, tpc |-> out]

tc_to_tpc(tc, tpc) ==
    LET out == [diatonic_pitch |-> tc.diatonic_point + DP_C,
                pitch_alteration |-> tc.alteration + PA_]
    IN  IF validate_tc(tc) # TONAL_OK
        THEN [ret |-> validate_tc(tc), tpc |-> tpc]
        ELSE IF validate_tpc(out) # TONAL_OK
        THEN [ret |-> ABORT, tpc |-> out]
        ELSE [ret |-> TONAL_OK, tpc |-> out]

tic_to_tc(tic, tc) ==
    LET tic_di == tic.diatonic_interval
        tic_ia == tic.interval_alteration
        out == [diatonic_point |-> tic_di - DI_PRIME,
                alteration |-> TicTable(tic_di, tic_ia)]
    IN  IF ~(0 = DI_PRIME /\ 6 = DI_SEVENTH
             /\ 0 = IA_DIMINISHED /\ 4 = IA_AUGMENTED)
        THEN [ret |-> ABORT, tc |-> tc]
        ELSE IF validate_tic(tic) # TONAL_OK
        THEN [ret |-> validate_tic(tic), tc |-> tc]
        ELSE IF validate_tc(out) # TONAL_OK THEN [ret |-> ABORT, tc |-> out]
        ELSE [ret |-> TONAL_OK, tc |-> out]

\* tc_to_tic() with Minor and Major exchanged.
tc_to_tic_minor_major(tc, tic) ==
    LET tic_di == tc.diatonic_point + DI_PRIME
        tc_a == tc.alteration
        t1 == [tic EXCEPT !.diatonic_interval = tic_di]
        done(tic_ia) ==
            LET out == [t1 EXCEPT !.interval_alteration = tic_ia]
            IN  IF validate_tic(out) # TONAL_OK
                THEN [ret |-> ABORT, tic |-> out]
                ELSE [ret |-> TONAL_OK, tic |-> out]
    IN  IF validate_tc(tc) # TONAL_OK
        THEN [ret |-> validate_tc(tc), tic |-> tic]
        ELSE IF tic_di \in {DI_PRIME, DI_FOURTH, DI_FIFTH}
        THEN CASE tc_a = -1 -> done(IA_DIMINISHED)
               [] tc_a = 0  -> done(IA_PERFECT)
               [] tc_a = 1  -> done(IA_AUGMENTED)
               [] OTHER     -> [ret |-> TONAL_FAIL, tic |-> t1]
        ELSE IF tic_di \in {DI_SECOND, DI_THIRD, DI_SIXTH, DI_SEVENTH}
        THEN CASE tc_a = -2 -> done(IA_DIMINISHED)
               [] tc_a = -1 -> done(IA_MAJOR)
               [] tc_a = 0  -> done(IA_MINOR)
               [] tc_a = 1  -> done(IA_AUGMENTED)
               [] OTHER     -> [ret |-> TONAL_FAIL, tic |-> t1]
        ELSE [ret |-> ABORT, tic |-> t1]

\* tic->diatonic_interval is written before the alteration is looked up.
tc_to_tic(tc, tic) ==
    LET tic_di == tc.diatonic_point + DI_PRIME
        tc_a == tc.alteration
        t1 == [tic EXCEPT !.diatonic_interval = tic_di]
        done(tic_ia) ==
            LET out == [t1 EXCEPT !.interval_alteration = tic_ia]
            IN  IF validate_tic(out) # TONAL_OK
                THEN [ret |-> ABORT, tic |-> out]
                ELSE [ret |-> TONAL_OK, tic |-> out]
    IN  IF validate_tc(tc) # TONAL_OK
        THEN [ret |-> validate_tc(tc), tic |-> tic]
        ELSE IF tic_di \in {DI_PRIME, DI_FOURTH, DI_FIFTH}
        THEN CASE tc_a = -1 -> done(IA_DIMINISHED)
               [] tc_a = 0  -> done(IA_PERFECT)
               [] tc_a = 1  -> done(IA_AUGMENTED)
               [] OTHER     -> [ret |-> TONAL_FAIL, tic |-> t1]
        ELSE IF tic_di \in {DI_SECOND, DI_THIRD, DI_SIXTH, DI_SEVENTH}
        THEN CASE tc_a = -2 -> done(IA_DIMINISHED)
               [] tc_a = -1 -> done(IA_MINOR)
               [] tc_a = 0  -> done(IA_MAJOR)
               [] tc_a = 1  -> done(IA_AUGMENTED)
               [] OTHER     -> [ret |-> TONAL_FAIL, tic |-> t1]
        ELSE [ret |-> ABORT, tic |-> t1]

tp_to_te(tp, te) ==
    LET c == tpc_to_tc(TpcOfTp(tp), TcOfTe(te))
        t1 == [te EXCEPT !.diatonic_point = c.tc.diatonic_point,
                         !.alteration = c.tc.alteration]
        t2 == [t1 EXCEPT !.octave = tp.octave]
    IN  IF validate_tp(tp) # TONAL_OK
        THEN [ret |-> validate_tp(tp), te |-> te]
        ELSE IF c.ret # TONAL_OK THEN [ret |-> c.ret, te |-> t1]
        ELSE IF validate_te(t2) # TONAL_OK THEN [ret |-> ABORT, te |-> t2]
        ELSE [ret |-> TONAL_OK, te |-> t2]

\* An element with a negative octave passes validate_te() and tc_to_tpc()
\* and then fails the assert on validate_tp().
te_to_tp(te, tp) ==
    LET c == tc_to_tpc(TcOfTe(te), TpcOfTp(tp))
        t1 == [tp EXCEPT !.diatonic_pitch = c.tpc.diatonic_pitch,
                         !.pitch_alteration = c.tpc.pitch_alteration]
        t2 == [t1 EXCEPT !.octave = te.octave]
    IN  IF validate_te(te) # TONAL_OK
        THEN [ret |-> validate_te(te), tp |-> tp]
        ELSE IF c.ret # TONAL_OK THEN [ret |-> c.ret, tp |-> t1]
        ELSE IF validate_tp(t2) # TONAL_OK THEN [ret |-> ABORT, tp |-> t2]
        ELSE [ret |-> TONAL_OK, tp |-> t2]

\* ti_to_te() taking every interval as an Up interval.
ti_to_te_up_only(ti, te) ==
    LET c == tic_to_tc(TicOfTi(ti), TcOfTe(te))
        t1 == [te EXCEPT !.diatonic_point = c.tc.diatonic_point,
                         !.alteration = c.tc.alteration]
        t2 == [t1 EXCEPT !.octave = ti.octave]
    IN  IF validate_ti(ti) # TONAL_OK
        THEN [ret |-> validate_ti(ti), te |-> te]
        ELSE IF c.ret # TONAL_OK THEN [ret |-> c.ret, te |-> t1]
        ELSE IF validate_te(t2) # TONAL_OK THEN [ret |-> ABORT, te |-> t2]
        ELSE [ret |-> TONAL_OK, te |-> t2]

\* ti_to_te() without the validation of the interval on entry.
ti_to_te_unchecked(ti, te) ==
    LET c == tic_to_tc(TicOfTi(ti), TcOfTe(te))
        t1 == [te EXCEPT !.diatonic_point = c.tc.diatonic_point,
                         !.alteration = c.tc.alteration]
        t2 == [t1 EXCEPT !.octave = ti.octave]
        inv == te_inv(t2)
    IN  IF c.ret # TONAL_OK THEN [ret |-> c.ret, te |-> t1]
        ELSE IF validate_te(t2) # TONAL_OK THEN [ret |-> ABORT, te |-> t2]
        ELSE IF ID_DOWN = ti.interval_direction
        THEN IF inv.ret # TONAL_OK THEN [ret |-> ABORT, te |-> inv.te]
             ELSE IF validate_te(inv.te) # TONAL_OK
             THEN [ret |-> ABORT, te |-> inv.te]
             ELSE [ret |-> TONAL_OK, te |-> inv.te]
        ELSE [ret |-> TONAL_OK, te |-> t2]

ti_to_te(ti, te) ==
    LET c == tic_to_tc(TicOfTi(ti), TcOfTe(te))
        t1 == [te EXCEPT !.diatonic_point = c.tc.diatonic_point,
                         !.alteration = c.tc.alteration]
        t2 == [t1 EXCEPT !.octave = ti.octave]
        inv == te_inv(t2)
    IN  IF validate_ti(ti) # TONAL_OK
        THEN [ret |-> validate_ti(ti), te |-> te]
        ELSE IF c.ret # TONAL_OK THEN [ret |-> c.ret, te |-> t1]
        ELSE IF validate_te(t2) # TONAL_OK THEN [ret |-> ABORT, te |-> t2]
        ELSE IF ID_DOWN = ti.interval_direction
        THEN IF inv.ret # TONAL_OK THEN [ret |-> ABORT, te |-> inv.te]
             ELSE IF validate_te(inv.te) # TONAL_OK
             THEN [ret |-> ABORT, te |-> inv.te]
             ELSE [ret |-> TONAL_OK, te |-> inv.te]
        ELSE [ret |-> TONAL_OK, te |-> t2]

\* Writes the class fields of *ti from c, then the octave and direction,
\* and runs the two asserts at the end of te_to_ti().
TeToTiFinish(c, ti, octave, direction) ==
    LET t1 == [ti EXCEPT !.diatonic_interval = c.tic.diatonic_interval,
                         !.interval_alteration = c.tic.interval_alteration]
        t2 == [t1 EXCEPT !.octave = octave,
                         !.interval_direction = direction]
    IN  IF c.ret # TONAL_OK THEN [ret |-> c.ret, ti |-> t1]
        ELSE IF ~(0 <= t2.octave) THEN [ret |-> ABORT, ti |-> t2]
        ELSE IF validate_ti(t2) # TONAL_OK THEN [ret |-> ABORT, ti |-> t2]
        ELSE [ret |-> TONAL_OK, ti |-> t2]

\* te_to_ti() giving the direction Up to every interval.
te_to_ti_always_up(te, ti) ==
    LET inv == te_inv([diatonic_point |-> te.diatonic_point,
                       alteration |-> te.alteration,
                       octave |-> te.octave])
    IN  IF validate_te(te) # TONAL_OK
        THEN [ret |-> validate_te(te), ti |-> ti]
        ELSE IF te.octave >= 0
        THEN TeToTiFinish(tc_to_tic(TcOfTe(te), TicOfTi(ti)), ti,
                          te.octave, ID_UP)
        ELSE IF inv.ret # TONAL_OK THEN [ret |-> inv.ret, ti |-> ti]
        ELSE TeToTiFinish(tc_to_tic(TcOfTe(inv.te), TicOfTi(ti)), ti,
                          inv.te.octave, ID_UP)

te_to_ti(te, ti) ==
    LET inv == te_inv([diatonic_point |-> te.diatonic_point,
                       alteration |-> te.alteration,
                       octave |-> te.octave])
    IN  IF validate_te(te) # TONAL_OK
        THEN [ret |-> validate_te(te), ti |-> ti]
        ELSE IF te.octave >= 0
        THEN TeToTiFinish(tc_to_tic(TcOfTe(te), TicOfTi(ti)), ti,
                          te.octave, ID_UP)
        ELSE IF inv.ret # TONAL_OK THEN [ret |-> inv.ret, ti |-> ti]
        ELSE TeToTiFinish(tc_to_tic(TcOfTe(inv.te), TicOfTi(ti)), ti,
                          inv.te.octave, ID_DOWN)

tp_to_mnn(tp) ==
    LET c == tp_to_te(tp, TONAL_ELEMENT_ZERO)
    IN  IF c.ret # TONAL_OK THEN INT_MIN
        ELSE te_get_chromatic_value(c.te)

---------------------------------------------------------------------------
(* Setters. *)

tpc_set(tpc, diatonic_pitch, pitch_alteration) ==
    LET out == [tpc EXCEPT !.diatonic_pitch = diatonic_pitch,
                           !.pitch_alteration = pitch_alteration]
    IN  IF validate_diatonic_pitch(diatonic_pitch) # TONAL_OK
        THEN [ret |-> validate_diatonic_pitch(diatonic_pitch), tpc |-> tpc]
        ELSE IF validate_pitch_alteration(pitch_alteration) # TONAL_OK
        THEN [ret |-> validate_pitch_alteration(pitch_alteration),
              tpc |-> tpc]
        ELSE IF validate_tpc(out) # TONAL_OK THEN [ret |-> ABORT, tpc |-> out]
        ELSE [ret |-> TONAL_OK, tpc |-> out]

tic_set(tic, diatonic_interval, interval_alteration) ==
    LET out == [tic EXCEPT !.diatonic_interval = diatonic_interval,
                           !.interval_alteration = interval_alteration]
    IN  IF validate_diatonic_interval(diatonic_interval) # TONAL_OK
        THEN [ret |-> validate_diatonic_interval(diatonic_interval),
              tic |-> tic]
        ELSE IF validate_interval_alteration(interval_alteration) # TONAL_OK
        THEN [ret |-> validate_interval_alteration(interval_alteration),
              tic |-> tic]
        ELSE IF X = TicTable(diatonic_interval, interval_alteration)
        THEN [ret |-> TONAL_FAIL, tic |-> tic]
        ELSE IF validate_tic(out) # TONAL_OK THEN [ret |-> ABORT, tic |-> out]
        ELSE [ret |-> TONAL_OK, tic |-> out]

tp_set(tp, diatonic_pitch, pitch_alteration, octave) ==
    LET c == tpc_set(TpcOfTp(tp), diatonic_pitch, pitch_alteration)
        t1 == [tp EXCEPT !.diatonic_pitch = c.tpc.diatonic_pitch,
                         !.pitch_alteration = c.tpc.pitch_alteration]
        t2 == [t1 EXCEPT !.octave = octave]
    IN  IF c.ret # TONAL_OK THEN [ret |-> c.ret, tp |-> t1]
        ELSE IF validate_tp(t2) # TONAL_OK THEN [ret |-> ABORT, tp |-> t2]
        ELSE [ret |-> TONAL_OK, tp |-> t2]

ti_set(ti, di, ia, octave, interval_direction) ==
    LET c == tic_set(TicOfTi(ti), di, ia)
        t1 == [ti EXCEPT !.diatonic_interval = c.tic.diatonic_interval,
                         !.interval_alteration = c.tic.interval_alteration]
        t2 == [t1 EXCEPT !.octave = octave,
                         !.interval_direction = interval_direction]
    IN  IF c.ret # TONAL_OK THEN [ret |-> c.ret, ti |-> t1]
        ELSE [ret |-> validate_ti(t2), ti |-> t2]

---------------------------------------------------------------------------
(* Public operations.  The element temporaries are locals of the call;    *)
(* each is written in full before it is read.                              *)

\* The first two steps of a call, on the results a and b of the two
\* conversions, and te_add() or te_sub() of the two elements.
SumOf(a, b) ==
    IF a.ret # TONAL_OK THEN [ret |-> a.ret, te |-> TONAL_ELEMENT_ZERO]
    ELSE IF b.ret # TONAL_OK THEN [ret |-> b.ret, te |-> TONAL_ELEMENT_ZERO]
    ELSE te_add(a.te, b.te, TONAL_ELEMENT_ZERO)

DiffOf(a, b) ==
    IF a.ret # TONAL_OK THEN [ret |-> a.ret, te |-> TONAL_ELEMENT_ZERO]
    ELSE IF b.ret # TONAL_OK THEN [ret |-> b.ret, te |-> TONAL_ELEMENT_ZERO]
    ELSE te_sub(a.te, b.te, TONAL_ELEMENT_ZERO)

\* The last step of a call, on the result s of the steps before it.
PitchOf(s, tp_out) ==
    IF s.ret # TONAL_OK THEN [ret |-> s.ret, tp |-> tp_out]
    ELSE te_to_tp(s.te, tp_out)

IntervalOf(s, ti_out) ==
    IF s.ret # TONAL_OK THEN [ret |-> s.ret, ti |-> ti_out]
    ELSE te_to_ti(s.te, ti_out)

tp_add(tp, ti, tp_sum) ==
    PitchOf(SumOf(tp_to_te(tp, TONAL_ELEMENT_ZERO),
                  ti_to_te(ti, TONAL_ELEMENT_ZERO)), tp_sum)

ti_add(i0, i1, ti_sum) ==
    IntervalOf(SumOf(ti_to_te(i0, TONAL_ELEMENT_ZERO),
                     ti_to_te(i1, TONAL_ELEMENT_ZERO)), ti_sum)

tp_sub(p0, p1, ti_diff) ==
    IntervalOf(DiffOf(tp_to_te(p0, TONAL_ELEMENT_ZERO),
                      tp_to_te(p1, TONAL_ELEMENT_ZERO)), ti_diff)

ti_sub(i0, i1, ti_diff) ==
    IntervalOf(DiffOf(ti_to_te(i0, TONAL_ELEMENT_ZERO),
                      ti_to_te(i1, TONAL_ELEMENT_ZERO)), ti_diff)

---------------------------------------------------------------------------
(* Operand sets of the drivers and the content of structs not yet written. *)

\* Elements handed to the element arithmetic: every valid class and the
\* nearest invalid points and alterations.
TeOperands ==
    [diatonic_point : -1 .. 7, alteration : -3 .. 3,
     octave : -MaxOct .. MaxOct]

NoTe == TONAL_ELEMENT_ZERO
NoTp == [diatonic_pitch |-> DP_NONE, pitch_alteration |-> PA_NONE,
         octave |-> 0]
NoTi == [diatonic_interval |-> DI_NONE, interval_alteration |-> IA_NONE,
         octave |-> 0, interval_direction |-> ID_NONE]
NoTc == [diatonic_point |-> 0, alteration |-> 0]
NoTpc == [diatonic_pitch |-> DP_NONE, pitch_alteration |-> PA_NONE]
NoTic == [diatonic_interval |-> DI_NONE, interval_alteration |-> IA_NONE]

\* The structs a driver does not use keep this content.
IdleTe == te0 = NoTe /\ te1 = NoTe /\ te_tmp = NoTe /\ te2 = NoTe
          /\ te3 = NoTe
IdleTp == tp0 = NoTp /\ tp1 = NoTp /\ tp2 = NoTp
IdleTi == ti0 = NoTi /\ ti1 = NoTi /\ ti2 = NoTi
IdleClasses == tc0 = NoTc /\ tc2 = NoTc /\ tpc0 = NoTpc /\ tpc2 = NoTpc
               /\ tic0 = NoTic /\ tic2 = NoTic

---------------------------------------------------------------------------
(* Driver of the element arithmetic (test_te_inv, test_te_add).  A driver  *)
(* whose call aborted makes no further call.                               *)

Init ==
    /\ pc = "start"
    /\ te0 \in TeOperands
    /\ te1 \in TeOperands
    /\ te_tmp = te0
    /\ te2 = NoTe /\ te3 = NoTe
    /\ ret = TONAL_OK /\ ret3 = TONAL_OK /\ ret0 = TONAL_OK
    /\ tp3 = NoTp /\ shifts = 0 /\ dv0 = 0 /\ cv0 = 0
    /\ IdleTp /\ IdleTi /\ IdleClasses

\* te_add(&te0, &te1, &te2)
CallTeAdd ==
    /\ pc = "start"
    /\ LET r == te_add(te0, te1, te2)
       IN  ret' = r.ret /\ te2' = r.te
    /\ pc' = "te_add"
    /\ UNCHANGED <<te0, te1, te_tmp, te3, ret3, ret0, tp0, tp1, tp2, ti0, ti1,
                   ti2, tc0, tc2, tpc0, tpc2, tic0, tic2, tp3, shifts,
                   dv0, cv0>>

\* te_add(&te1, &te0, &te3), after te_add(&te0, &te1, &te2)
CallTeAddSwapped ==
    /\ pc = "te_add"
    /\ ret # ABORT
    /\ LET r == te_add(te1, te0, te3)
       IN  ret3' = r.ret /\ te3' = r.te
    /\ pc' = "te_add_swapped"
    /\ UNCHANGED <<te0, te1, te_tmp, te2, ret, ret0, tp0, tp1, tp2, ti0, ti1,
                   ti2, tc0, tc2, tpc0, tpc2, tic0, tic2, tp3, shifts,
                   dv0, cv0>>

\* te_inv(&te_tmp), te_tmp being a copy of te0
CallTeInv ==
    /\ pc = "start"
    /\ LET r == te_inv(te_tmp)
       IN  ret' = r.ret /\ ret0' = r.ret /\ te_tmp' = r.te
    /\ pc' = "te_inv"
    /\ UNCHANGED <<te0, te1, te2, te3, ret3, tp0, tp1, tp2, ti0, ti1,
                   ti2, tc0, tc2, tpc0, tpc2, tic0, tic2, tp3, shifts,
                   dv0, cv0>>

\* te_add(&te0, &te_tmp, &te2), after te_inv(&te_tmp)
CallTeAddInv ==
    /\ pc = "te_inv"
    /\ ret0 # ABORT
    /\ LET r == te_add(te0, te_tmp, te2)
       IN  ret' = r.ret /\ te2' = r.te
    /\ pc' = "te_add_inv"
    /\ UNCHANGED <<te0, te1, te_tmp, te3, ret3, ret0, tp0, tp1, tp2, ti0, ti1,
                   ti2, tc0, tc2, tpc0, tpc2, tic0, tic2, tp3, shifts,
                   dv0, cv0>>

\* te_sub(&te0, &te1, &te2)
CallTeSub ==
    /\ pc = "start"
    /\ LET r == te_sub(te0, te1, te2)
       IN  ret' = r.ret /\ te2' = r.te
    /\ pc' = "te_sub"
    /\ UNCHANGED <<te0, te1, te_tmp, te3, ret3, ret0, tp0, tp1, tp2, ti0, ti1,
                   ti2, tc0, tc2, tpc0, tpc2, tic0, tic2, tp3, shifts,
                   dv0, cv0>>

\* te_add(&te0, &te1, &te_tmp), te_tmp being a copy of te0
CallTeAddOver ==
    /\ pc = "start"
    /\ LET r == te_add(te0, te1, te_tmp)
       IN  ret' = r.ret /\ ret0' = r.ret /\ te_tmp' = r.te
    /\ pc' = "te_add_over"
    /\ UNCHANGED <<te0, te1, te2, te3, ret3, tp0, tp1, tp2, ti0, ti1,
                   ti2, tc0, tc2, tpc0, tpc2, tic0, tic2, tp3, shifts,
                   dv0, cv0>>

Next == CallTeAdd \/ CallTeAddSwapped \/ CallTeInv \/ CallTeAddInv
        \/ CallTeSub \/ CallTeAddOver

Spec == Init /\ [][Next]_vars

---------------------------------------------------------------------------
(* Driver of the conversion layer (test_tpc_to_tc .. test_te_to_ti,        *)
(* test_ti_ranges): one operand struct is drawn, the others stay idle.     *)
(* A driver whose call aborted makes no further call.                      *)

\* Pitches: every valid pitch up to MaxPitchOct and the nearest invalid
\* names, alterations and octave.
TpOperands ==
    [diatonic_pitch : -1 .. DP_NONE, pitch_alteration : -1 .. PA_NONE,
     octave : -1 .. MaxPitchOct]

\* Intervals: every valid interval up to MaxIntervalOct and the nearest
\* invalid fields.
TiOperands ==
    [diatonic_interval : -1 .. DI_NONE, interval_alteration : -1 .. IA_NONE,
     octave : -1 .. MaxIntervalOct, interval_direction : ID_UP .. ID_NONE]

TcOperands == [diatonic_point : -1 .. 7, alteration : -3 .. 3]

TpcOperands ==
    [diatonic_pitch : -1 .. DP_NONE, pitch_alteration : -1 .. PA_NONE]

TicOperands ==
    [diatonic_interval : -1 .. DI_NONE, interval_alteration : -1 .. IA_NONE]

InitConv ==
    /\ ret = TONAL_OK /\ ret3 = TONAL_OK /\ ret0 = TONAL_OK
    /\ tp3 = NoTp /\ shifts = 0 /\ dv0 = 0 /\ cv0 = 0
    /\ te1 = NoTe /\ te_tmp = NoTe /\ te2 = NoTe /\ te3 = NoTe
    /\ tp1 = NoTp /\ tp2 = NoTp /\ ti1 = NoTi /\ ti2 = NoTi
    /\ tc2 = NoTc /\ tpc2 = NoTpc /\ tic2 = NoTic
    /\ \/ /\ pc = "tp" /\ tp0 \in TpOperands /\ te0 = NoTe
          /\ ti0 = NoTi /\ tc0 = NoTc /\ tpc0 = NoTpc /\ tic0 = NoTic
       \/ /\ pc = "ti" /\ ti0 \in TiOperands /\ te0 = NoTe
          /\ tp0 = NoTp /\ tc0 = NoTc /\ tpc0 = NoTpc /\ tic0 = NoTic
       \/ /\ pc = "tc" /\ tc0 \in TcOperands /\ te0 = NoTe
          /\ tp0 = NoTp /\ ti0 = NoTi /\ tpc0 = NoTpc /\ tic0 = NoTic
       \/ /\ pc = "tpc" /\ tpc0 \in TpcOperands /\ te0 = NoTe
          /\ tp0 = NoTp /\ ti0 = NoTi /\ tc0 = NoTc /\ tic0 = NoTic
       \/ /\ pc = "tic" /\ tic0 \in TicOperands /\ te0 = NoTe
          /\ tp0 = NoTp /\ ti0 = NoTi /\ tc0 = NoTc /\ tpc0 = NoTpc
       \/ /\ pc = "te" /\ te0 \in TeOperands
          /\ tp0 = NoTp /\ ti0 = NoTi /\ tc0 = NoTc /\ tpc0 = NoTpc
          /\ tic0 = NoTic

\* tp_to_te(&tp0, &te2)
CallTpToTe ==
    /\ pc = "tp"
    /\ LET r == tp_to_te(tp0, te2)
       IN  ret0' = r.ret /\ ret' = r.ret /\ te2' = r.te
    /\ pc' = "tp_to_te"
    /\ UNCHANGED <<te0, te1, te_tmp, te3, ret3, tp0, tp1, tp2, ti0, ti1, ti2,
                   tc0, tc2, tpc0, tpc2, tic0, tic2, tp3, shifts, dv0, cv0>>

\* te_to_tp(&te2, &tp2), after tp_to_te(&tp0, &te2)
CallTeToTp ==
    /\ pc = "tp_to_te"
    /\ ret0 # ABORT
    /\ LET r == te_to_tp(te2, tp2)
       IN  ret' = r.ret /\ tp2' = r.tp
    /\ pc' = "te_to_tp"
    /\ UNCHANGED <<te0, te1, te_tmp, te2, te3, ret3, tp0, tp1, ti0, ti1, ti2,
                   tc0, tc2, tpc0, tpc2, tic0, tic2, ret0, tp3, shifts,
                   dv0, cv0>>

\* tpc_to_tc(&tpc0, &tc2)
CallTpcToTc ==
    /\ pc = "tpc"
    /\ LET r == tpc_to_tc(tpc0, tc2)
       IN  ret0' = r.ret /\ ret' = r.ret /\ tc2' = r.tc
    /\ pc' = "tpc_to_tc"
    /\ UNCHANGED <<te0, te1, te_tmp, te2, te3, ret3, tp0, tp1, tp2, ti0, ti1,
                   ti2, tc0, tpc0, tpc2, tic0, tic2, tp3, shifts, dv0, cv0>>

\* tc_to_tpc(&tc2, &tpc2), after tpc_to_tc(&tpc0, &tc2)
CallTcToTpc ==
    /\ pc = "tpc_to_tc"
    /\ ret0 # ABORT
    /\ LET r == tc_to_tpc(tc2, tpc2)
       IN  ret' = r.ret /\ tpc2' = r.tpc
    /\ pc' = "tc_to_tpc"
    /\ UNCHANGED <<te0, te1, te_tmp, te2, te3, ret3, tp0, tp1, tp2, ti0, ti1,
                   ti2, tc0, tc2, tpc0, tic0, tic2, ret0, tp3, shifts,
                   dv0, cv0>>

\* ti_to_te(&ti0, &te2)
CallTiToTe ==
    /\ pc = "ti"
    /\ LET r == ti_to_te(ti0, te2)
       IN  ret0' = r.ret /\ ret' = r.ret /\ te2' = r.te
    /\ pc' = "ti_to_te"
    /\ UNCHANGED <<te0, te1, te_tmp, te3, ret3, tp0, tp1, tp2, ti0, ti1, ti2,
                   tc0, tc2, tpc0, tpc2, tic0, tic2, tp3, shifts, dv0, cv0>>

\* te_to_ti(&te2, &ti2), after ti_to_te(&ti0, &te2)
CallTeToTi ==
    /\ pc = "ti_to_te"
    /\ ret0 # ABORT
    /\ LET r == te_to_ti(te2, ti2)
       IN  ret' = r.ret /\ ti2' = r.ti
    /\ pc' = "te_to_ti"
    /\ UNCHANGED <<te0, te1, te_tmp, te2, te3, ret3, tp0, tp1, tp2, ti0, ti1,
                   tc0, tc2, tpc0, tpc2, tic0, tic2, ret0, tp3, shifts,
                   dv0, cv0>>

\* tic_to_tc(&tic0, &tc2)
CallTicToTc ==
    /\ pc = "tic"
    /\ LET r == tic_to_tc(tic0, tc2)
       IN  ret0' = r.ret /\ ret' = r.ret /\ tc2' = r.tc
    /\ pc' = "tic_to_tc"
    /\ UNCHANGED <<te0, te1, te_tmp, te2, te3, ret3, tp0, tp1, tp2, ti0, ti1,
                   ti2, tc0, tpc0, tpc2, tic0, tic2, tp3, shifts, dv0, cv0>>

\* tc_to_tic(&tc2, &tic2), after tic_to_tc(&tic0, &tc2)
CallTcToTicBack ==
    /\ pc = "tic_to_tc"
    /\ ret0 # ABORT
    /\ LET r == tc_to_tic(tc2, tic2)
       IN  ret' = r.ret /\ tic2' = r.tic
    /\ pc' = "tic_round"
    /\ UNCHANGED <<te0, te1, te_tmp, te2, te3, ret3, tp0, tp1, tp2, ti0, ti1,
                   ti2, tc0, tc2, tpc0, tpc2, tic0, ret0, tp3, shifts,
                   dv0, cv0>>

\* tc_to_tic(&tc0, &tic2)
CallTcToTic ==
    /\ pc = "tc"
    /\ LET r == tc_to_tic(tc0, tic2)
       IN  ret0' = r.ret /\ ret' = r.ret /\ tic2' = r.tic
    /\ pc' = "tc_to_tic"
    /\ UNCHANGED <<te0, te1, te_tmp, te2, te3, ret3, tp0, tp1, tp2, ti0, ti1,
                   ti2, tc0, tc2, tpc0, tpc2, tic0, tp3, shifts, dv0, cv0>>

\* tic_to_tc(&tic2, &tc2), after tc_to_tic(&tc0, &tic2)
CallTicToTcBack ==
    /\ pc = "tc_to_tic"
    /\ ret0 # ABORT
    /\ LET r == tic_to_tc(tic2, tc2)
       IN  ret' = r.ret /\ tc2' = r.tc
    /\ pc' = "tc_round"
    /\ UNCHANGED <<te0, te1, te_tmp, te2, te3, ret3, tp0, tp1, tp2, ti0, ti1,
                   ti2, tc0, tpc0, tpc2, tic0, tic2, ret0, tp3, shifts,
                   dv0, cv0>>

\* validate_tic(&tic0)
CallValidateTic ==
    /\ pc = "tic"
    /\ ret' = validate_tic(tic0)
    /\ ret0' = ret'
    /\ pc' = "validate_tic"
    /\ UNCHANGED <<te0, te1, te_tmp, te2, te3, ret3, tp0, tp1, tp2, ti0, ti1,
                   ti2, tc0, tc2, tpc0, tpc2, tic0, tic2, tp3, shifts,
                   dv0, cv0>>

\* tic_set(&tic2, tic0.diatonic_interval, tic0.interval_alteration)
CallTicSet ==
    /\ pc = "tic"
    /\ LET r == tic_set(tic2, tic0.diatonic_interval,
                         tic0.interval_alteration)
       IN  ret0' = r.ret /\ ret' = r.ret /\ tic2' = r.tic
    /\ pc' = "tic_set"
    /\ UNCHANGED <<te0, te1, te_tmp, te2, te3, ret3, tp0, tp1, tp2, ti0, ti1,
                   ti2, tc0, tc2, tpc0, tpc2, tic0, tp3, shifts, dv0, cv0>>

\* tpc_set(&tpc2, tpc0.diatonic_pitch, tpc0.pitch_alteration)
CallTpcSet ==
    /\ pc = "tpc"
    /\ LET r == tpc_set(tpc2, tpc0.diatonic_pitch, tpc0.pitch_alteration)
       IN  ret0' = r.ret /\ ret' = r.ret /\ tpc2' = r.tpc
    /\ pc' = "tpc_set"
    /\ UNCHANGED <<te0, te1, te_tmp, te2, te3, ret3, tp0, tp1, tp2, ti0, ti1,
                   ti2, tc0, tc2, tpc0, tic0, tic2, tp3, shifts, dv0, cv0>>

\* ti_set(&ti2, ti0.diatonic_interval, ti0.interval_alteration, ti0.octave,
\*        ti0.interval_direction)
CallTiSet ==
    /\ pc = "ti"
    /\ LET r == ti_set(ti2, ti0.diatonic_interval, ti0.interval_alteration,
                        ti0.octave, ti0.interval_direction)
       IN  ret0' = r.ret /\ ret' = r.ret /\ ti2' = r.ti
    /\ pc' = "ti_set"
    /\ UNCHANGED <<te0, te1, te_tmp, te2, te3, ret3, tp0, tp1, tp2, ti0, ti1,
                   tc0, tc2, tpc0, tpc2, tic0, tic2, tp3, shifts, dv0, cv0>>

\* tp_set(&tp2, tp0.diatonic_pitch, tp0.pitch_alteration, tp0.octave)
CallTpSet ==
    /\ pc = "tp"
    /\ LET r == tp_set(tp2, tp0.diatonic_pitch, tp0.pitch_alteration,
                        tp0.octave)
       IN  ret0' = r.ret /\ ret' = r.ret /\ tp2' = r.tp
    /\ pc' = "tp_set"
    /\ UNCHANGED <<te0, te1, te_tmp, te2, te3, ret3, tp0, tp1, ti0, ti1, ti2,
                   tc0, tc2, tpc0, tpc2, tic0, tic2, tp3, shifts, dv0, cv0>>

\* tp_to_mnn(&tp0)
CallTpToMnn ==
    /\ pc = "tp"
    /\ ret' = tp_to_mnn(tp0)
    /\ ret0' = ret'
    /\ pc' = "tp_to_mnn"
    /\ UNCHANGED <<te0, te1, te_tmp, te2, te3, ret3, tp0, tp1, tp2, ti0, ti1,
                   ti2, tc0, tc2, tpc0, tpc2, tic0, tic2, tp3, shifts,
                   dv0, cv0>>

\* te_to_tp(&te0, &tp2)
CallTeToTpDirect ==
    /\ pc = "te"
    /\ LET r == te_to_tp(te0, tp2)
       IN  ret0' = r.ret /\ ret' = r.ret /\ tp2' = r.tp
    /\ pc' = "te_to_tp_direct"
    /\ UNCHANGED <<te0, te1, te_tmp, te2, te3, ret3, tp0, tp1, ti0, ti1, ti2,
                   tc0, tc2, tpc0, tpc2, tic0, tic2, tp3, shifts, dv0, cv0>>

\* te_to_ti(&te0, &ti2)
CallTeToTiDirect ==
    /\ pc = "te"
    /\ LET r == te_to_ti(te0, ti2)
       IN  ret0' = r.ret /\ ret' = r.ret /\ ti2' = r.ti
    /\ pc' = "te_to_ti_direct"
    /\ UNCHANGED <<te0, te1, te_tmp, te2, te3, ret3, tp0, tp1, tp2, ti0, ti1,
                   tc0, tc2, tpc0, tpc2, tic0, tic2, tp3, shifts, dv0, cv0>>

\* te_inv(&te_tmp), te_tmp being a copy of te2, after ti_to_te(&ti0, &te2)
CallTeInvOfInterval ==
    /\ pc = "ti_to_te"
    /\ ret0 # ABORT
    /\ LET r == te_inv(te2)
       IN  ret' = r.ret /\ te_tmp' = r.te
    /\ pc' = "ti_to_te_inv"
    /\ UNCHANGED <<te0, te1, te2, te3, ret3, ret0, tp0, tp1, tp2, tp3, ti0,
                   ti1, ti2, tc0, tc2, tpc0, tpc2, tic0, tic2, shifts, dv0,
                   cv0>>

\* ti_to_te(&ti, &te3), ti being ti0 with the direction set to ID_UP
CallTiToTeUp ==
    /\ pc = "ti_to_te_inv"
    /\ ret # ABORT
    /\ LET r == ti_to_te([ti0 EXCEPT !.interval_direction = ID_UP], te3)
       IN  ret3' = r.ret /\ te3' = r.te
    /\ pc' = "ti_to_te_up"
    /\ UNCHANGED <<te0, te1, te_tmp, te2, ret, ret0, tp0, tp1, tp2, tp3, ti0,
                   ti1, ti2, tc0, tc2, tpc0, tpc2, tic0, tic2, shifts, dv0,
                   cv0>>

\* validate_ti(&ti0)
CallValidateTi ==
    /\ pc = "ti"
    /\ ret' = validate_ti(ti0)
    /\ ret0' = ret'
    /\ pc' = "validate_ti"
    /\ UNCHANGED <<te0, te1, te_tmp, te2, te3, ret3, tp0, tp1, tp2, tp3, ti0,
                   ti1, ti2, tc0, tc2, tpc0, tpc2, tic0, tic2, shifts, dv0,
                   cv0>>

NextConv ==
    \/ CallTpToTe \/ CallTeToTp \/ CallTpcToTc \/ CallTcToTpc
    \/ CallTiToTe \/ CallTeToTi \/ CallTicToTc \/ CallTcToTicBack
    \/ CallTcToTic \/ CallTicToTcBack \/ CallValidateTic \/ CallTicSet
    \/ CallTiSet \/ CallTpSet \/ CallTpToMnn \/ CallTeToTpDirect
    \/ CallTeToTiDirect \/ CallTeInvOfInterval \/ CallTiToTeUp
    \/ CallValidateTi \/ CallTpcSet

SpecConv == InitConv /\ [][NextConv]_vars

---------------------------------------------------------------------------
(* Driver of the public operations (example2_4, test_tp_add1): a pair of  *)
(* valid operands is drawn, the difference is taken and added back.  A    *)
(* driver whose call aborted makes no further call.                        *)

\* The pitches tp_set() accepts, up to MaxPitchOct.
TpValidOperands == {p \in TpOperands : validate_tp(p) = TONAL_OK}

\* The intervals ti_set() accepts, up to MaxIntervalOct.
TiValidOperands ==
    {i \in TiOperands : validate_tic(TicOfTi(i)) = TONAL_OK
                        /\ validate_ti(i) = TONAL_OK}

InitPub ==
    /\ ret = TONAL_OK /\ ret3 = TONAL_OK /\ ret0 = TONAL_OK
    /\ tp3 = NoTp /\ shifts = 0 /\ dv0 = 0 /\ cv0 = 0
    /\ IdleTe /\ IdleClasses /\ tp2 = NoTp /\ ti2 = NoTi
    /\ \/ /\ pc = "tp_tp"
          /\ tp0 \in TpValidOperands /\ tp1 \in TpValidOperands
          /\ ti0 = NoTi /\ ti1 = NoTi
       \/ /\ pc = "ti_ti"
          /\ ti0 \in TiValidOperands /\ ti1 \in TiValidOperands
          /\ tp0 = NoTp /\ tp1 = NoTp

\* tp_sub(&tp0, &tp1, &ti2)
CallTpSub ==
    /\ pc = "tp_tp"
    /\ LET r == tp_sub(tp0, tp1, ti2)
       IN  ret0' = r.ret /\ ret' = r.ret /\ ti2' = r.ti
    /\ pc' = "tp_sub"
    /\ UNCHANGED <<te0, te1, te_tmp, te2, te3, ret3, tp0, tp1, tp2, ti0, ti1,
                   tc0, tc2, tpc0, tpc2, tic0, tic2, tp3, shifts, dv0, cv0>>

\* tp_add(&tp0, &ti2, &tp2), after tp_sub(&tp0, &tp1, &ti2)
CallTpAddDiff ==
    /\ pc = "tp_sub"
    /\ ret0 # ABORT
    /\ LET r == tp_add(tp0, ti2, tp2)
       IN  ret' = r.ret /\ tp2' = r.tp
    /\ pc' = "tp_add_diff"
    /\ UNCHANGED <<te0, te1, te_tmp, te2, te3, ret3, tp0, tp1, ti0, ti1, ti2,
                   tc0, tc2, tpc0, tpc2, tic0, tic2, ret0, tp3, shifts,
                   dv0, cv0>>

\* ti_sub(&ti0, &ti1, &ti2)
CallTiSub ==
    /\ pc = "ti_ti"
    /\ LET r == ti_sub(ti0, ti1, ti2)
       IN  ret0' = r.ret /\ ret' = r.ret /\ ti2' = r.ti
    /\ pc' = "ti_sub"
    /\ UNCHANGED <<te0, te1, te_tmp, te2, te3, ret3, tp0, tp1, tp2, ti0, ti1,
                   tc0, tc2, tpc0, tpc2, tic0, tic2, tp3, shifts, dv0, cv0>>

NextPub == CallTpSub \/ CallTpAddDiff \/ CallTiSub

SpecPub == InitPub /\ [][NextPub]_vars

---------------------------------------------------------------------------
(* Driver of the two additions (example2_1, example2_2): a pair of valid  *)
(* operands is drawn and added.                                            *)

InitSum ==
    /\ ret = TONAL_OK /\ ret3 = TONAL_OK /\ ret0 = TONAL_OK
    /\ tp3 = NoTp /\ shifts = 0 /\ dv0 = 0 /\ cv0 = 0
    /\ IdleTe /\ IdleClasses /\ tp1 = NoTp /\ tp2 = NoTp /\ ti2 = NoTi
    /\ \/ /\ pc = "tp_ti"
          /\ tp0 \in TpValidOperands /\ ti0 \in TiValidOperands
          /\ ti1 = NoTi
       \/ /\ pc = "ti_ti_sum"
          /\ ti0 \in TiValidOperands /\ ti1 \in TiValidOperands
          /\ tp0 = NoTp

\* tp_add(&tp0, &ti0, &tp2)
CallTpAdd ==
    /\ pc = "tp_ti"
    /\ LET r == tp_add(tp0, ti0, tp2)
       IN  ret0' = r.ret /\ ret' = r.ret /\ tp2' = r.tp
    /\ pc' = "tp_add"
    /\ UNCHANGED <<te0, te1, te_tmp, te2, te3, ret3, tp0, tp1, tp3, ti0, ti1,
                   ti2, tc0, tc2, tpc0, tpc2, tic0, tic2, shifts, dv0, cv0>>

\* ti_add(&ti0, &ti1, &ti2)
CallTiAdd ==
    /\ pc = "ti_ti_sum"
    /\ LET r == ti_add(ti0, ti1, ti2)
       IN  ret0' = r.ret /\ ret' = r.ret /\ ti2' = r.ti
    /\ pc' = "ti_add"
    /\ UNCHANGED <<te0, te1, te_tmp, te2, te3, ret3, tp0, tp1, tp2, tp3, ti0,
                   ti1, tc0, tc2, tpc0, tpc2, tic0, tic2, shifts, dv0, cv0>>

NextSum == CallTpAdd \/ CallTiAdd

SpecSum == InitSum /\ [][NextSum]_vars

---------------------------------------------------------------------------
(* Driver of the chains of shifts (test_tp_add1, test_tp_add2): a pitch is *)
(* shifted by the same interval again and again, the sum becoming the     *)
(* next operand, until an addition fails; the first operand is also       *)
(* shifted by a second interval.  A driver whose call aborted makes no    *)
(* further call.                                                           *)

MaxShifts == 35

Ebb4 == [diatonic_pitch |-> DP_E, pitch_alteration |-> PA_bb, octave |-> 4]
Bss20 == [diatonic_pitch |-> DP_B, pitch_alteration |-> PA_ss, octave |-> 20]
Fbb1 == [diatonic_pitch |-> DP_F, pitch_alteration |-> PA_bb, octave |-> 1]

UpAugmentedPrime ==
    [diatonic_interval |-> DI_PRIME, interval_alteration |-> IA_AUGMENTED,
     octave |-> 0, interval_direction |-> ID_UP]
DownAugmentedPrime ==
    [diatonic_interval |-> DI_PRIME, interval_alteration |-> IA_AUGMENTED,
     octave |-> 0, interval_direction |-> ID_DOWN]
DownPerfectFifth ==
    [diatonic_interval |-> DI_FIFTH, interval_alteration |-> IA_PERFECT,
     octave |-> 0, interval_direction |-> ID_DOWN]
UpAugmentedFourth ==
    [diatonic_interval |-> DI_FOURTH, interval_alteration |-> IA_AUGMENTED,
     octave |-> 0, interval_direction |-> ID_UP]
UpDiminishedFifth ==
    [diatonic_interval |-> DI_FIFTH, interval_alteration |-> IA_DIMINISHED,
     octave |-> 0, interval_direction |-> ID_UP]

\* The pitches a chain starts from: every valid pitch up to MaxPitchOct and
\* the two of the tests.
ShiftStarts == TpValidOperands \cup {Ebb4, Bss20}

ShiftIntervals ==
    {UpAugmentedPrime, DownAugmentedPrime, DownPerfectFifth,
     UpAugmentedFourth}

InitShift ==
    /\ pc = "shift"
    /\ tp0 \in ShiftStarts
    /\ tp3 = tp0
    /\ ti0 \in ShiftIntervals
    /\ ti1 = UpDiminishedFifth
    /\ tp1 = NoTp /\ tp2 = NoTp /\ ti2 = NoTi
    /\ shifts = 0 /\ dv0 = 0 /\ cv0 = 0
    /\ ret = TONAL_OK /\ ret3 = TONAL_OK /\ ret0 = TONAL_OK
    /\ IdleTe /\ IdleClasses

\* tp_add(&tp0, &ti0, &tp1)
CallTpAddShift ==
    /\ pc = "shift"
    /\ shifts < MaxShifts
    /\ LET r == tp_add(tp0, ti0, tp1)
       IN  ret' = r.ret /\ tp1' = r.tp
    /\ shifts' = shifts + 1
    /\ pc' = "shifted"
    /\ UNCHANGED <<te0, te1, te_tmp, te2, te3, ret3, ret0, tp0, tp2, tp3, ti0,
                   ti1, ti2, tc0, tc2, tpc0, tpc2, tic0, tic2, dv0, cv0>>

\* tp0 = tp1, after a tp_add() that returned TONAL_OK
CopyShifted ==
    /\ pc = "shifted"
    /\ ret = TONAL_OK
    /\ tp0' = tp1
    /\ pc' = "shift"
    /\ UNCHANGED <<te0, te1, te_tmp, te2, te3, ret, ret3, ret0, tp1, tp2, tp3,
                   ti0, ti1, ti2, tc0, tc2, tpc0, tpc2, tic0, tic2, shifts,
                   dv0, cv0>>

\* tp_add(&tp0, &ti1, &tp2), after tp_add(&tp0, &ti0, &tp1)
CallTpAddOther ==
    /\ pc = "shifted"
    /\ ret # ABORT
    /\ LET r == tp_add(tp0, ti1, tp2)
       IN  ret3' = r.ret /\ tp2' = r.tp
    /\ pc' = "shifted_both"
    /\ UNCHANGED <<te0, te1, te_tmp, te2, te3, ret, ret0, tp0, tp1, tp3, ti0,
                   ti1, ti2, tc0, tc2, tpc0, tpc2, tic0, tic2, shifts,
                   dv0, cv0>>

NextShift == CallTpAddShift \/ CopyShifted \/ CallTpAddOther

SpecShift == InitShift /\ [][NextShift]_vars

---------------------------------------------------------------------------
(* Driver of the public operations on operands that are not valid: a pair *)
(* of operands is drawn of which at least one is not valid, and is added  *)
(* or subtracted.                                                          *)

\* A few pitches and intervals, valid and not, to go with every operand.
TpSamples ==
    {[diatonic_pitch |-> DP_C, pitch_alteration |-> PA_, octave |-> 0],
     [diatonic_pitch |-> DP_B, pitch_alteration |-> PA_ss,
      octave |-> MaxPitchOct],
     [diatonic_pitch |-> DP_C, pitch_alteration |-> PA_, octave |-> -1],
     NoTp}

TiSamples ==
    {[diatonic_interval |-> DI_PRIME, interval_alteration |-> IA_PERFECT,
      octave |-> 0, interval_direction |-> ID_UP],
     [diatonic_interval |-> DI_SEVENTH, interval_alteration |-> IA_MAJOR,
      octave |-> MaxIntervalOct, interval_direction |-> ID_DOWN],
     [diatonic_interval |-> DI_PRIME, interval_alteration |-> IA_DIMINISHED,
      octave |-> 0, interval_direction |-> ID_UP],
     DownAugmentedPrime, NoTi}

TpInvalidOperands == TpOperands \ TpValidOperands
TiInvalidOperands == TiOperands \ TiValidOperands

\* Pairs with an operand that is not valid, on either side.
InitBad ==
    /\ ret = TONAL_OK /\ ret3 = TONAL_OK /\ ret0 = TONAL_OK
    /\ tp3 = NoTp /\ shifts = 0 /\ dv0 = 0 /\ cv0 = 0
    /\ IdleTe /\ IdleClasses /\ tp2 = NoTp /\ ti2 = NoTi
    /\ \/ /\ pc = "tp_ti"
          /\ \/ tp0 \in TpInvalidOperands /\ ti0 \in TiSamples
             \/ tp0 \in TpSamples /\ ti0 \in TiInvalidOperands
          /\ tp1 = NoTp /\ ti1 = NoTi
       \/ /\ pc = "tp_tp"
          /\ \/ tp0 \in TpInvalidOperands /\ tp1 \in TpSamples
             \/ tp0 \in TpSamples /\ tp1 \in TpInvalidOperands
          /\ ti0 = NoTi /\ ti1 = NoTi
       \/ /\ pc \in {"ti_ti", "ti_ti_sum"}
          /\ \/ ti0 \in TiInvalidOperands /\ ti1 \in TiSamples
             \/ ti0 \in TiSamples /\ ti1 \in TiInvalidOperands
          /\ tp0 = NoTp /\ tp1 = NoTp

NextBad == CallTpAdd \/ CallTiAdd \/ CallTpSub \/ CallTiSub

SpecBad == InitBad /\ [][NextBad]_vars

---------------------------------------------------------------------------
(* Driver of te_from_dv_cv(): a diatonic and a chromatic value are drawn   *)
(* and the element is built.                                               *)

MaxDv == 15
MaxCv == 28

InitDv ==
    /\ pc = "dv_cv"
    /\ dv0 \in -MaxDv .. MaxDv
    /\ cv0 \in -MaxCv .. MaxCv
    /\ ret = TONAL_OK /\ ret3 = TONAL_OK /\ ret0 = TONAL_OK
    /\ tp3 = NoTp /\ shifts = 0
    /\ IdleTe /\ IdleTp /\ IdleTi /\ IdleClasses

\* te_from_dv_cv(&te2, dv0, cv0)
CallTeFromDvCv ==
    /\ pc = "dv_cv"
    /\ LET r == te_from_dv_cv(te2, dv0, cv0)
       IN  ret' = r.ret /\ te2' = r.te
    /\ pc' = "te_from_dv_cv"
    /\ UNCHANGED <<te0, te1, te_tmp, te3, ret3, ret0, tp0, tp1, tp2, tp3, ti0,
                   ti1, ti2, tc0, tc2, tpc0, tpc2, tic0, tic2, shifts, dv0,
                   cv0>>

NextDv == CallTeFromDvCv

SpecDv == InitDv /\ [][NextDv]_vars

---------------------------------------------------------------------------
(* The vocabulary of the properties: validity and the two projections of  *)
(* an element, written from their definitions and not from the code.      *)

ValidTe(e) == e.diatonic_point \in 0 .. 6 /\ e.alteration \in -2 .. 2

Mpc(point) == CASE point = 0 -> 0 [] point = 1 -> 2 [] point = 2 -> 4
                [] point = 3 -> 5 [] point = 4 -> 7 [] point = 5 -> 9
                [] point = 6 -> 11

DiatonicValue(e) == 7 * e.octave + e.diatonic_point

ChromaticValue(e) == 12 * e.octave + Mpc(e.diatonic_point) + e.alteration

\* Every valid element a sum or difference of two operands can be.
ValidElements ==
    [diatonic_point : 0 .. 6, alteration : -2 .. 2,
     octave : -(2 * MaxOct + 1) .. (2 * MaxOct + 1)]

\* The valid elements with the given diatonic and chromatic value.
ElementsAt(dv, cv) ==
    {e \in ValidElements : DiatonicValue(e) = dv /\ ChromaticValue(e) = cv}

---------------------------------------------------------------------------
(* Properties of the element arithmetic. *)

\* C1: Identity. For every valid element e, te_add(e, ZERO) and
\* te_add(ZERO, e) return TONAL_OK and the result equals e field for field.
Thm_C1_Identity ==
    /\ (pc = "te_add" /\ ValidTe(te0) /\ te1 = TONAL_ELEMENT_ZERO)
           => (ret = TONAL_OK /\ te2 = te0)
    /\ (pc = "te_add" /\ te0 = TONAL_ELEMENT_ZERO /\ ValidTe(te1))
           => (ret = TONAL_OK /\ te2 = te1)

Wit_C1_Identity ==
    /\ pc = "te_add"
    /\ te0 = TONAL_ELEMENT_ZERO
    /\ te1 = [diatonic_point |-> 6, alteration |-> 2, octave |-> -1]
    /\ ret = TONAL_OK
    /\ te2 = te1

\* C2 as stated: for every valid element e, te_inv on a copy of e returns
\* TONAL_OK, and te_add(e, te_inv(e)) returns TONAL_OK with the result ZERO.
Orig_C2_Inverse ==
    /\ (pc = "te_inv" /\ ValidTe(te0)) => ret = TONAL_OK
    /\ (pc = "te_add_inv" /\ ValidTe(te0))
           => (ret0 = TONAL_OK /\ ret = TONAL_OK
               /\ te2 = TONAL_ELEMENT_ZERO)

\* C2 amended: for every valid element e, te_inv on a copy of e returns
\* TONAL_OK unless e has point 1, 2, 5 or 6 and alteration +2, in which
\* case it returns TONAL_FAIL; whenever te_inv returned TONAL_OK,
\* te_add(e, te_inv(e)) returns TONAL_OK with the result ZERO.
Thm_C2_Inverse ==
    /\ (pc \in {"te_inv", "te_add_inv"} /\ ValidTe(te0))
           => IF te0.diatonic_point \in {1, 2, 5, 6} /\ te0.alteration = 2
              THEN ret0 = TONAL_FAIL
              ELSE ret0 = TONAL_OK
    /\ (pc = "te_add_inv" /\ ValidTe(te0) /\ ret0 = TONAL_OK)
           => (ret = TONAL_OK /\ te2 = TONAL_ELEMENT_ZERO)

Wit_C2_Inverse ==
    /\ pc = "te_add_inv"
    /\ te0 = [diatonic_point |-> 6, alteration |-> -1, octave |-> 1]
    /\ ret0 = TONAL_OK
    /\ te_tmp = [diatonic_point |-> 1, alteration |-> 0, octave |-> -2]
    /\ ret = TONAL_OK
    /\ te2 = TONAL_ELEMENT_ZERO

\* C3: Commutativity. For all valid elements e0 and e1, te_add(e0, e1) and
\* te_add(e1, e0) return the same status, and the same element when that
\* status is TONAL_OK.
Thm_C3_Commutativity ==
    (pc = "te_add_swapped" /\ ValidTe(te0) /\ ValidTe(te1))
        => (ret = ret3 /\ (ret = TONAL_OK => te2 = te3))

Wit_C3_Commutativity ==
    /\ pc = "te_add_swapped"
    /\ te0 = [diatonic_point |-> 4, alteration |-> 1, octave |-> 1]
    /\ te1 = [diatonic_point |-> 5, alteration |-> -2, octave |-> -1]
    /\ ret = TONAL_OK /\ ret3 = TONAL_OK
    /\ te2 = te3
    /\ te2 = [diatonic_point |-> 2, alteration |-> -1, octave |-> 1]

\* C4: Addition is exact. For all valid elements e0 and e1, te_add(e0, e1)
\* returns TONAL_OK exactly when a valid element has the diatonic value
\* dv(e0)+dv(e1) and the chromatic value cv(e0)+cv(e1), the result is then
\* that element, and otherwise te_add returns TONAL_FAIL.
Thm_C4_AdditionExact ==
    (pc = "te_add" /\ ValidTe(te0) /\ ValidTe(te1))
        => LET sums == ElementsAt(DiatonicValue(te0) + DiatonicValue(te1),
                                  ChromaticValue(te0) + ChromaticValue(te1))
           IN  /\ (ret = TONAL_OK) <=> (sums # {})
               /\ (ret = TONAL_OK) => (sums = {te2})
               /\ (ret # TONAL_OK) => (ret = TONAL_FAIL)

\* G0 + Up Perfect Fourth = C1.
Wit_C4_AdditionExact ==
    /\ pc = "te_add"
    /\ te0 = [diatonic_point |-> 4, alteration |-> 0, octave |-> 0]
    /\ te1 = [diatonic_point |-> 3, alteration |-> 0, octave |-> 0]
    /\ ret = TONAL_OK
    /\ te2 = [diatonic_point |-> 0, alteration |-> 0, octave |-> 1]

\* C5: Subtraction operand order. For all valid elements te0 and te1 for
\* which te_sub(te0, te1, &te2) succeeds, te2 is te1 - te0, the element
\* te_add(te1, te_inv(te0)) yields.
Orig_C5_SubtractionOrder ==
    (pc = "te_sub" /\ ValidTe(te0) /\ ValidTe(te1) /\ ret = TONAL_OK)
        => /\ DiatonicValue(te2) = DiatonicValue(te1) - DiatonicValue(te0)
           /\ ChromaticValue(te2) = ChromaticValue(te1) - ChromaticValue(te0)
           /\ LET inv == te_inv(te0)
                  sum == te_add(te1, inv.te, NoTe)
              IN  inv.ret = TONAL_OK /\ sum.ret = TONAL_OK /\ te2 = sum.te

---------------------------------------------------------------------------
(* The vocabulary of the conversion properties. *)

ValidTpc(x) == x.diatonic_pitch \in 0 .. 6 /\ x.pitch_alteration \in 0 .. 4

ValidTp(p) == ValidTpc(p) /\ p.octave >= 0

\* Prime, Fourth and Fifth are Diminished, Perfect or Augmented; Second,
\* Third, Sixth and Seventh are Diminished, Minor, Major or Augmented.
LegalPair(di, ia) ==
    \/ di \in {0, 3, 4} /\ ia \in {0, 3, 4}
    \/ di \in {1, 2, 5, 6} /\ ia \in {0, 1, 2, 4}

LegalTic(x) == LegalPair(x.diatonic_interval, x.interval_alteration)

ValidTi(i) ==
    /\ LegalTic(i)
    /\ i.octave >= 0
    /\ i.interval_direction \in {0, 1}
    /\ ~(i.diatonic_interval = 0 /\ i.interval_alteration = 0
         /\ i.octave = 0)

ValidTc(c) == c.diatonic_point \in 0 .. 6 /\ c.alteration \in -2 .. 2

\* The classes the legality table has no quality for.
NoQuality(c) ==
    \/ c.diatonic_point \in {0, 3, 4} /\ c.alteration \in {-2, 2}
    \/ c.diatonic_point \in {1, 2, 5, 6} /\ c.alteration = 2

---------------------------------------------------------------------------
(* Properties of the conversion layer. *)

\* C7: Pitch round-trip. For every valid pitch p, tp_to_te(p) succeeds and
\* gives the element with point = pitch name counted from C, alteration
\* counted from the natural and the octave of p; te_to_tp of that element
\* succeeds and returns p. For every valid pitch class x,
\* tc_to_tpc(tpc_to_tc(x)) = x with the same shift.
Thm_C7_PitchRoundTrip ==
    /\ (pc \in {"tp_to_te", "te_to_tp"} /\ ValidTp(tp0))
           => /\ ret0 = TONAL_OK
              /\ te2 = [diatonic_point |-> tp0.diatonic_pitch,
                        alteration |-> tp0.pitch_alteration - 2,
                        octave |-> tp0.octave]
    /\ (pc = "te_to_tp" /\ ValidTp(tp0)) => (ret = TONAL_OK /\ tp2 = tp0)
    /\ (pc \in {"tpc_to_tc", "tc_to_tpc"} /\ ValidTpc(tpc0))
           => /\ ret0 = TONAL_OK
              /\ tc2 = [diatonic_point |-> tpc0.diatonic_pitch,
                        alteration |-> tpc0.pitch_alteration - 2]
    /\ (pc = "tc_to_tpc" /\ ValidTpc(tpc0))
           => (ret = TONAL_OK /\ tpc2 = tpc0)

\* G#2 becomes the element {4, 1, 2} and comes back as G#2.
Wit_C7_PitchRoundTrip ==
    /\ pc = "te_to_tp"
    /\ tp0 = [diatonic_pitch |-> 4, pitch_alteration |-> 3, octave |-> 2]
    /\ te2 = [diatonic_point |-> 4, alteration |-> 1, octave |-> 2]
    /\ ret0 = TONAL_OK /\ ret = TONAL_OK
    /\ tp2 = tp0

\* C8: Interval round-trip. For every valid interval i, ti_to_te(i)
\* succeeds and te_to_ti of the result succeeds and returns an interval
\* equal to i in all four fields, the direction included.
Orig_C8_IntervalRoundTrip ==
    /\ (pc \in {"ti_to_te", "te_to_ti"} /\ ValidTi(ti0)) => ret0 = TONAL_OK
    /\ (pc = "te_to_ti" /\ ValidTi(ti0)) => (ret = TONAL_OK /\ ti2 = ti0)

\* C9: Interval class conversion inverts the legality table. For every
\* legal interval class x, tc_to_tic(tic_to_tc(x)) = x; for a valid class
\* c, tc_to_tic(c) returns TONAL_FAIL exactly when the table has no quality
\* for c, and otherwise tic_to_tc(tc_to_tic(c)) = c.
Thm_C9_IntervalClassInverse ==
    /\ (pc \in {"tic_to_tc", "tic_round"} /\ LegalTic(tic0))
           => ret0 = TONAL_OK
    /\ (pc = "tic_round" /\ LegalTic(tic0))
           => (ret = TONAL_OK /\ tic2 = tic0)
    /\ (pc \in {"tc_to_tic", "tc_round"} /\ ValidTc(tc0))
           => IF NoQuality(tc0) THEN ret0 = TONAL_FAIL ELSE ret0 = TONAL_OK
    /\ (pc = "tc_round" /\ ValidTc(tc0) /\ ~NoQuality(tc0))
           => (ret = TONAL_OK /\ tc2 = tc0)

\* The Minor Sixth is the class {5, -1} and comes back as the Minor Sixth.
Wit_C9_IntervalClassInverse ==
    /\ pc = "tic_round"
    /\ tic0 = [diatonic_interval |-> 5, interval_alteration |-> 1]
    /\ tc2 = [diatonic_point |-> 5, alteration |-> -1]
    /\ ret0 = TONAL_OK /\ ret = TONAL_OK
    /\ tic2 = tic0

\* C10: Legality table fidelity. Interval class validation and tic_set
\* return TONAL_OK exactly for Prime/Fourth/Fifth with Diminished, Perfect
\* or Augmented and Second/Third/Sixth/Seventh with Diminished, Minor,
\* Major or Augmented, and TONAL_FAIL for every other pair and for every
\* out-of-range interval or quality; tic_set then stores the pair.
Thm_C10_LegalityTable ==
    /\ pc = "validate_tic"
           => IF LegalTic(tic0) THEN ret = TONAL_OK ELSE ret = TONAL_FAIL
    /\ pc = "tic_set"
           => IF LegalTic(tic0) THEN ret = TONAL_OK /\ tic2 = tic0
              ELSE ret = TONAL_FAIL

\* tic_set stores the Perfect Fifth.
Wit_C10_LegalityTable ==
    /\ pc = "tic_set"
    /\ tic0 = [diatonic_interval |-> 4, interval_alteration |-> 3]
    /\ ret = TONAL_OK
    /\ tic2 = tic0

---------------------------------------------------------------------------
(* The vocabulary of the interval properties: the signed degree a quality *)
(* stands for and the two values of an interval, negative when Down.       *)

QualityDegree(di, ia) ==
    IF di \in {0, 3, 4}
    THEN CASE ia = 0 -> -1 [] ia = 3 -> 0 [] ia = 4 -> 1
    ELSE CASE ia = 0 -> -2 [] ia = 1 -> -1 [] ia = 2 -> 0 [] ia = 4 -> 1

Sign(i) == IF i.interval_direction = 1 THEN -1 ELSE 1

IntervalDiatonicValue(i) == Sign(i) * (7 * i.octave + i.diatonic_interval)

IntervalChromaticValue(i) ==
    Sign(i) * (12 * i.octave + Mpc(i.diatonic_interval)
               + QualityDegree(i.diatonic_interval, i.interval_alteration))

---------------------------------------------------------------------------
(* Properties of the public operations. *)

\* C6: The pitch difference is the interval from tp0 to tp1. For all valid
\* pitches tp0 and tp1, whenever tp_sub(tp0, tp1, &d) returns TONAL_OK,
\* tp_add(tp0, d, &r) returns TONAL_OK with r = tp1; and for all valid
\* intervals, whenever ti_sub(ti0, ti1, &d) returns TONAL_OK, d is
\* ti1 - ti0.
Orig_C6_PitchDifference ==
    /\ (pc = "tp_add_diff" /\ ValidTp(tp0) /\ ValidTp(tp1)
        /\ ret0 = TONAL_OK)
           => (ret = TONAL_OK /\ tp2 = tp1)
    /\ (pc = "ti_sub" /\ ValidTi(ti0) /\ ValidTi(ti1) /\ ret = TONAL_OK)
           => /\ IntervalDiatonicValue(ti2)
                    = IntervalDiatonicValue(ti1) - IntervalDiatonicValue(ti0)
              /\ IntervalChromaticValue(ti2)
                    = IntervalChromaticValue(ti1)
                          - IntervalChromaticValue(ti0)

---------------------------------------------------------------------------
(* The setter of an interval. *)

IsDiminishedPrime(i) ==
    i.diatonic_interval = 0 /\ i.interval_alteration = 0

\* C11: ti_set() fails for the Diminished Prime of octave 0 in either
\* direction, succeeds for the Diminished Prime of an octave of 1 or more,
\* fails for every negative octave, and otherwise succeeds exactly when the
\* class is a legal pair and the direction is Up or Down; on success the
\* interval holds the four values given.
Thm_C11_IntervalSetter ==
    pc = "ti_set" =>
        /\ ret \in {TONAL_OK, TONAL_FAIL}
        /\ (IsDiminishedPrime(ti0) /\ ti0.octave = 0) => ret = TONAL_FAIL
        /\ (IsDiminishedPrime(ti0) /\ ti0.octave >= 1
            /\ ti0.interval_direction \in {0, 1}) => ret = TONAL_OK
        /\ ti0.octave < 0 => ret = TONAL_FAIL
        /\ (~IsDiminishedPrime(ti0) /\ ti0.octave >= 0) =>
               (ret = TONAL_OK <=>
                   LegalTic(ti0) /\ ti0.interval_direction \in {0, 1})
        /\ ret = TONAL_OK => ti2 = ti0

\* The Diminished Prime of octave 1, Down, was set.
Wit_C11_IntervalSetter ==
    /\ pc = "ti_set"
    /\ ti0 = [diatonic_interval |-> 0, interval_alteration |-> 0,
              octave |-> 1, interval_direction |-> 1]
    /\ ret = TONAL_OK
    /\ ti2 = ti0

---------------------------------------------------------------------------
(* Chains of shifts. *)

\* C12: tp_add() of any valid pitch and the Up Augmented Prime of octave 0
\* succeeds exactly when the alteration is below the double sharp, and the
\* sum has the same name and octave and the next higher alteration; with
\* the Down Augmented Prime it succeeds exactly when the alteration is
\* above the double flat, and the sum has the next lower alteration.
Thm_C12_AugmentedPrimeShift ==
    (pc = "shifted" /\ ValidTp(tp0)) =>
        /\ ti0 = UpAugmentedPrime =>
               IF tp0.pitch_alteration < 4
               THEN /\ ret = TONAL_OK
                    /\ tp1 = [tp0 EXCEPT !.pitch_alteration = @ + 1]
               ELSE ret = TONAL_FAIL
        /\ ti0 = DownAugmentedPrime =>
               IF tp0.pitch_alteration > 0
               THEN /\ ret = TONAL_OK
                    /\ tp1 = [tp0 EXCEPT !.pitch_alteration = @ - 1]
               ELSE ret = TONAL_FAIL

\* The fifth shift of Ebb4 by the Up Augmented Prime failed on E##4.
Wit_C12_AugmentedPrimeShift ==
    /\ pc = "shifted"
    /\ tp3 = Ebb4
    /\ ti0 = UpAugmentedPrime
    /\ shifts = 5
    /\ tp0 = [Ebb4 EXCEPT !.pitch_alteration = 4]
    /\ tp1 = tp0
    /\ ret = TONAL_FAIL

\* C13: in the chain of shifts of B##20 by the Down Perfect Fifth of
\* octave 0, each of the first 34 additions returns TONAL_OK, the sum of the
\* 34th is Fbb1, and the 35th addition returns TONAL_FAIL.
Thm_C13_FifthChain ==
    (pc = "shifted" /\ tp3 = Bss20 /\ ti0 = DownPerfectFifth) =>
        /\ shifts <= 34 => ret = TONAL_OK
        /\ shifts = 34 => tp1 = Fbb1
        /\ shifts = 35 => ret = TONAL_FAIL

\* The 35th shift of the chain was made, on Fbb1.
Wit_C13_FifthChain ==
    /\ pc = "shifted"
    /\ tp3 = Bss20
    /\ ti0 = DownPerfectFifth
    /\ shifts = 35
    /\ tp0 = Fbb1
    /\ ret = TONAL_FAIL

---------------------------------------------------------------------------
(* Failures that have to be reported by the return value. *)

\* C14: a negative pitch octave is reported by TONAL_FAIL: te_to_tp() of a
\* valid element of a negative octave returns TONAL_FAIL, tp_set() with a
\* valid name and alteration and a negative octave returns TONAL_FAIL, and
\* tp_add() of a valid pitch and a valid interval returns TONAL_OK or
\* TONAL_FAIL.
Orig_C14_NegativePitchOctave ==
    /\ (pc = "te_to_tp_direct" /\ ValidTe(te0) /\ te0.octave < 0) =>
           ret = TONAL_FAIL
    /\ (pc = "tp_set" /\ ValidTpc(tp0) /\ tp0.octave < 0) =>
           ret = TONAL_FAIL
    /\ (pc = "tp_add" /\ ValidTp(tp0) /\ ValidTi(ti0)) =>
           ret \in {TONAL_OK, TONAL_FAIL}

\* C15: no call that produces an interval aborts: te_to_ti() of a valid
\* element returns TONAL_FAIL, or TONAL_OK with a valid interval, and
\* ti_add(), tp_sub() and ti_sub() of valid operands return TONAL_OK or
\* TONAL_FAIL.
Orig_C15_NoAbortOnIntervals ==
    /\ (pc = "te_to_ti_direct" /\ ValidTe(te0)) =>
           \/ ret = TONAL_FAIL
           \/ ret = TONAL_OK /\ ValidTi(ti2)
    /\ (pc \in {"ti_add", "ti_sub"} /\ ValidTi(ti0) /\ ValidTi(ti1)) =>
           ret \in {TONAL_OK, TONAL_FAIL}
    /\ (pc = "tp_sub" /\ ValidTp(tp0) /\ ValidTp(tp1)) =>
           ret \in {TONAL_OK, TONAL_FAIL}

\* C16: a te_add() or te_inv() of valid operands that returns TONAL_FAIL
\* leaves the element it writes to, for te_inv() its argument, with the
\* value it had before the call.
Orig_C16_NoPartialResult ==
    /\ (pc = "te_add_over" /\ ValidTe(te0) /\ ValidTe(te1)
        /\ ret = TONAL_FAIL) => te_tmp = te0
    /\ (pc = "te_inv" /\ ValidTe(te0) /\ ret = TONAL_FAIL) =>
           te_tmp = te0

\* The chromatic value cv counted from the octave of the diatonic value dv.
ReducedChromatic(dv, cv) == cv - 12 * (dv \div 7)

\* The element left behind by a failure to build the element of (dv, cv).
AfterFail(prior, dv, cv) ==
    IF ReducedChromatic(dv, cv) \in -2 .. 13
    THEN [diatonic_point |-> dv % 7, alteration |-> 0, octave |-> 0]
    ELSE prior

\* C16 (as it holds): a te_add() or te_inv() of valid operands that returns
\* TONAL_FAIL leaves the element it writes to, for te_inv() its argument,
\* with the value it had before the call only when the chromatic value of
\* the result is out of range; when the alteration overflows, the element
\* holds the diatonic point of the result, alteration 0 and octave 0.
Thm_C16_PartialResult ==
    /\ (pc = "te_add_over" /\ ValidTe(te0) /\ ValidTe(te1)
        /\ ret = TONAL_FAIL) =>
           te_tmp = AfterFail(te0, DiatonicValue(te0) + DiatonicValue(te1),
                              ChromaticValue(te0) + ChromaticValue(te1))
    /\ (pc = "te_inv" /\ ValidTe(te0) /\ ret = TONAL_FAIL) =>
           te_tmp = AfterFail(te0, -DiatonicValue(te0), -ChromaticValue(te0))

\* The inversion of {point 1, alteration 2, octave 0} failed and left
\* {point 6, alteration 0, octave 0} in its argument.
Wit_C16_PartialResult ==
    /\ pc = "te_inv"
    /\ te0 = [diatonic_point |-> 1, alteration |-> 2, octave |-> 0]
    /\ ret = TONAL_FAIL
    /\ te_tmp = [diatonic_point |-> 6, alteration |-> 0, octave |-> 0]

---------------------------------------------------------------------------
(* The note number of a pitch. *)

\* 12 * octave + mpc(name) + signed alteration, the natural being 0.
PitchNumber(p) ==
    12 * p.octave + Mpc(p.diatonic_pitch) + (p.pitch_alteration - 2)

\* C17: tp_to_mnn() of a valid pitch returns 12 * octave + mpc(name) +
\* signed alteration, and INT_MIN for every pitch with a name or an
\* alteration out of range or a negative octave.
Thm_C17_NoteNumber ==
    pc = "tp_to_mnn" =>
        IF ValidTp(tp0) THEN ret = PitchNumber(tp0) ELSE ret = INT_MIN

\* The note number of B##2 was taken.
Wit_C17_NoteNumber ==
    /\ pc = "tp_to_mnn"
    /\ tp0 = [diatonic_pitch |-> 6, pitch_alteration |-> 4, octave |-> 2]
    /\ ret = 37

\* The number of letter names from C of octave 0.
PitchLetter(p) == 7 * p.octave + p.diatonic_pitch

\* C18: for every valid pitch for which tp_add() of the Up Augmented Fourth
\* and tp_add() of the Up Diminished Fifth both return TONAL_OK, the two
\* sums have the same tp_to_mnn() value and different names: the first is
\* three letter names above the pitch, the second four.
Thm_C18_EnharmonicSums ==
    (pc = "shifted_both" /\ ValidTp(tp0) /\ ti0 = UpAugmentedFourth
     /\ ti1 = UpDiminishedFifth /\ ret = TONAL_OK /\ ret3 = TONAL_OK) =>
        /\ tp_to_mnn(tp1) = tp_to_mnn(tp2)
        /\ tp_to_mnn(tp1) = PitchNumber(tp0) + 6
        /\ tp1.diatonic_pitch # tp2.diatonic_pitch
        /\ PitchLetter(tp1) = PitchLetter(tp0) + 3
        /\ PitchLetter(tp2) = PitchLetter(tp0) + 4

\* C0 gave F#0 by the Augmented Fourth and Gb0 by the Diminished Fifth.
Wit_C18_EnharmonicSums ==
    /\ pc = "shifted_both"
    /\ tp0 = [diatonic_pitch |-> 0, pitch_alteration |-> 2, octave |-> 0]
    /\ ti0 = UpAugmentedFourth
    /\ ti1 = UpDiminishedFifth
    /\ ret = TONAL_OK /\ ret3 = TONAL_OK
    /\ tp1 = [diatonic_pitch |-> 3, pitch_alteration |-> 3, octave |-> 0]
    /\ tp2 = [diatonic_pitch |-> 4, pitch_alteration |-> 1, octave |-> 0]

---------------------------------------------------------------------------
(* Operands that are not valid. *)

\* C19: tp_add(), ti_add(), tp_sub() and ti_sub() return TONAL_FAIL, and
\* do not abort, whenever one of the two operands is not valid: a pitch
\* with a name or an alteration out of range or a negative octave, an
\* interval with a field out of range, an illegal pair, a negative octave,
\* a direction other than Up and Down, or the Diminished Prime of octave 0.
Thm_C19_InvalidOperands ==
    /\ (pc = "tp_add" /\ ~(ValidTp(tp0) /\ ValidTi(ti0))) => ret = TONAL_FAIL
    /\ (pc = "tp_sub" /\ ~(ValidTp(tp0) /\ ValidTp(tp1))) => ret = TONAL_FAIL
    /\ (pc \in {"ti_add", "ti_sub"} /\ ~(ValidTi(ti0) /\ ValidTi(ti1))) =>
           ret = TONAL_FAIL

\* C0 and the Diminished Prime of octave 0 were added.
Wit_C19_InvalidOperands ==
    /\ pc = "tp_add"
    /\ tp0 = [diatonic_pitch |-> 0, pitch_alteration |-> 2, octave |-> 0]
    /\ ti0 = [diatonic_interval |-> 0, interval_alteration |-> 0,
              octave |-> 0, interval_direction |-> 0]
    /\ ret = TONAL_FAIL
    /\ tp2 = NoTp

---------------------------------------------------------------------------
(* The direction of the interval of an element. *)

\* C20: whenever te_to_ti() of a valid element returns TONAL_OK, the octave
\* of the interval is 0 or more, the direction is Up if the octave of the
\* element is 0 or more and Down if it is negative, and a Down interval has
\* the class and the octave of the inverse of the element.
Thm_C20_DirectionCarriesSign ==
    (pc = "te_to_ti_direct" /\ ValidTe(te0) /\ ret = TONAL_OK) =>
        /\ ti2.octave >= 0
        /\ te0.octave >= 0 => ti2.interval_direction = 0
        /\ te0.octave < 0 =>
               /\ ti2.interval_direction = 1
               /\ LegalTic(ti2)
               /\ ti2.octave = (-DiatonicValue(te0)) \div 7
               /\ ti2.diatonic_interval = (-DiatonicValue(te0)) % 7
               /\ IntervalDiatonicValue(ti2) = DiatonicValue(te0)
               /\ IntervalChromaticValue(ti2) = ChromaticValue(te0)

\* The element {point 6, alteration 0, octave -1} gave the Down Minor
\* Second of octave 0.
Wit_C20_DirectionCarriesSign ==
    /\ pc = "te_to_ti_direct"
    /\ te0 = [diatonic_point |-> 6, alteration |-> 0, octave |-> -1]
    /\ ret = TONAL_OK
    /\ ti2 = [diatonic_interval |-> 1, interval_alteration |-> 1,
              octave |-> 0, interval_direction |-> 1]

---------------------------------------------------------------------------
(* The element of a Down interval. *)

\* C21: for every valid interval of direction Down, ti_to_te() returns
\* TONAL_OK, te_inv() of the element it gives returns TONAL_OK, and the
\* inverted element is the element ti_to_te() gives for the same interval
\* with the direction Up.
Thm_C21_DownIsInverseOfUp ==
    (pc \in {"ti_to_te", "ti_to_te_inv", "ti_to_te_up"} /\ ValidTi(ti0)
     /\ ti0.interval_direction = 1) =>
        /\ ret0 = TONAL_OK
        /\ pc \in {"ti_to_te_inv", "ti_to_te_up"} => ret = TONAL_OK
        /\ pc = "ti_to_te_up" => (ret3 = TONAL_OK /\ te_tmp = te3)

\* The Down Diminished Fifth of octave 1 gave {3, 1, -2}, whose inverse is
\* {4, -1, 1}, the element of the Up Diminished Fifth of octave 1.
Wit_C21_DownIsInverseOfUp ==
    /\ pc = "ti_to_te_up"
    /\ ti0 = [diatonic_interval |-> 4, interval_alteration |-> 0,
              octave |-> 1, interval_direction |-> 1]
    /\ te2 = [diatonic_point |-> 3, alteration |-> 1, octave |-> -2]
    /\ te_tmp = [diatonic_point |-> 4, alteration |-> -1, octave |-> 1]
    /\ te3 = te_tmp
    /\ ret0 = TONAL_OK /\ ret = TONAL_OK /\ ret3 = TONAL_OK

\* C22 (as stated): ti_to_te() gives every valid Down interval an element
\* of a negative octave and every valid Up interval an element of an
\* octave of 0 or more.
Orig_C22_DownIsNegativeOctave ==
    (pc = "ti_to_te" /\ ValidTi(ti0)) =>
        /\ ret0 = TONAL_OK
        /\ ti0.interval_direction = 1 => te2.octave < 0
        /\ ti0.interval_direction = 0 => te2.octave >= 0

\* C22 (as it holds): ti_to_te() gives every valid Up interval an element
\* of an octave of 0 or more, and every valid Down interval an element of a
\* negative octave except the Perfect and the Augmented Prime of octave 0,
\* whose elements have octave 0.
Thm_C22_DownIsNegativeOctave ==
    (pc = "ti_to_te" /\ ValidTi(ti0)) =>
        /\ ret0 = TONAL_OK
        /\ ti0.interval_direction = 0 => te2.octave >= 0
        /\ ti0.interval_direction = 1 =>
               IF ti0.diatonic_interval = 0 /\ ti0.octave = 0
               THEN te2.octave = 0
               ELSE te2.octave < 0

\* The Down Augmented Prime of octave 0 gave {0, -1, 0}.
Wit_C22_DownIsNegativeOctave ==
    /\ pc = "ti_to_te"
    /\ ti0 = DownAugmentedPrime
    /\ ret0 = TONAL_OK
    /\ te2 = [diatonic_point |-> 0, alteration |-> -1, octave |-> 0]

---------------------------------------------------------------------------
(* The octave of a diatonic value. *)

\* C23: for every diatonic value, negative, zero or positive, multiples of
\* 7 included, te_from_dv_cv() does not abort; the diatonic point it stores
\* is the diatonic value modulo 7, in 0..6, and the octave of the element
\* it returns with TONAL_OK is the diatonic value divided by 7 and rounded
\* toward negative infinity.
Thm_C23_FloorDivision ==
    pc = "te_from_dv_cv" =>
        /\ ret \in {TONAL_OK, TONAL_FAIL}
        /\ ret = TONAL_OK =>
               /\ te2.octave = dv0 \div 7
               /\ te2.diatonic_point = dv0 - 7 * te2.octave
               /\ te2.diatonic_point \in 0 .. 6
               /\ ChromaticValue(te2) = cv0
        /\ (ret = TONAL_FAIL /\ te2 # NoTe) =>
               te2 = [diatonic_point |-> dv0 % 7, alteration |-> 0,
                      octave |-> 0]

\* The element of diatonic value -2 and chromatic value -3, the inverse of
\* {2, -1, 0}, was built: {5, 0, -1}.
Wit_C23_FloorDivision ==
    /\ pc = "te_from_dv_cv"
    /\ dv0 = -2 /\ cv0 = -3
    /\ ret = TONAL_OK
    /\ te2 = [diatonic_point |-> 5, alteration |-> 0, octave |-> -1]

---------------------------------------------------------------------------
(* The range check of the chromatic value. *)

\* The diatonic and chromatic value of the sum of te0 and te1.
SumDiatonic == DiatonicValue(te0) + DiatonicValue(te1)
SumChromatic == ChromaticValue(te0) + ChromaticValue(te1)

\* The chromatic value of the sum counted from its octave, and the
\* alteration the sum would need.
SumReduced == ReducedChromatic(SumDiatonic, SumChromatic)
SumAlteration == SumReduced - Mpc(SumDiatonic % 7)

\* C24 (as stated): for all valid te0 and te1 the chromatic value of the
\* sum, counted from its octave, lies in -2..13, and a te_add() that
\* returns TONAL_FAIL has failed in the alteration check, after the write
\* of the diatonic point.
Orig_C24_RangeCheckNeverFails ==
    (pc = "te_add_over" /\ ValidTe(te0) /\ ValidTe(te1)) =>
        /\ SumReduced \in -2 .. 13
        /\ ret = TONAL_FAIL =>
               te_tmp = [diatonic_point |-> SumDiatonic % 7,
                         alteration |-> 0, octave |-> 0]

\* C24 (as it holds): for all valid te0 and te1 the chromatic value of the
\* sum, counted from its octave, lies in -4..15; te_add() returns
\* TONAL_FAIL exactly when the alteration the sum needs is outside -2..2;
\* the range check is the failing step exactly when the value is outside
\* -2..13, and then the alteration is outside -2..2 as well.
Thm_C24_RangeCheckNeverFails ==
    (pc = "te_add_over" /\ ValidTe(te0) /\ ValidTe(te1)) =>
        /\ SumReduced \in -4 .. 15
        /\ ret \in {TONAL_OK, TONAL_FAIL}
        /\ ret = TONAL_FAIL <=> SumAlteration \notin -2 .. 2
        /\ SumReduced \notin -2 .. 13 =>
               (SumAlteration \notin -2 .. 2 /\ te_tmp = te0)
        /\ (ret = TONAL_FAIL /\ SumReduced \in -2 .. 13) =>
               te_tmp = [diatonic_point |-> SumDiatonic % 7,
                         alteration |-> 0, octave |-> 0]

\* {0, 1, 0} and {6, 2, 0} were added: the chromatic value 14 of the sum
\* failed the range check and the output was not written.
Wit_C24_RangeCheckNeverFails ==
    /\ pc = "te_add_over"
    /\ te0 = [diatonic_point |-> 0, alteration |-> 1, octave |-> 0]
    /\ te1 = [diatonic_point |-> 6, alteration |-> 2, octave |-> 0]
    /\ SumReduced = 14
    /\ ret = TONAL_FAIL
    /\ te_tmp = te0

---------------------------------------------------------------------------
(* The validation of an interval. *)

\* C25: validate_ti() returns TONAL_FAIL for every interval whose pair of
\* diatonic interval and alteration is out of range or not a legal pair,
\* for every negative octave, for every direction other than Up and Down,
\* and for the Diminished Prime of octave 0; it returns TONAL_OK for every
\* other interval.
Orig_C25_IntervalValidation ==
    pc = "validate_ti" =>
        IF ValidTi(ti0) THEN ret = TONAL_OK ELSE ret = TONAL_FAIL

---------------------------------------------------------------------------
(* The difference of a pitch and itself. *)

\* C26: for every valid pitch p, tp_sub(p, p, &d) returns TONAL_OK and d is
\* the Perfect Prime of octave 0 with direction Up.
Orig_C26_SelfDifferenceIsUnison ==
    (pc = "tp_sub" /\ ValidTp(tp0) /\ tp1 = tp0) =>
        /\ ret = TONAL_OK
        /\ ti2 = [octave |-> 0, diatonic_interval |-> DI_PRIME,
                  interval_alteration |-> IA_PERFECT,
                  interval_direction |-> ID_UP]

============================================================================
